---------------------------- MODULE Spec2Model ----------------------------
(***************************************************************************)
(* Apple Interrupt Controller driver (drivers/irqchip/irq-apple-aic.c).    *)
(*                                                                         *)
(* The model has parts that share the per-CPU program counter:             *)
(*   - the virtual-IPI multiplexer: the per-CPU flag and mask words, the   *)
(*     physical "other" IPI of each CPU, send / mask / unmask / drain;     *)
(*   - the hardware-line controller: one mask bit per line, mask / unmask  *)
(*     / eoi, affinity, and delivery through the event register;           *)
(*   - the probe of the controller and the poll of the fast sources.       *)
(* A 32-bit word (the flag and mask words, the values written to the send  *)
(* and line mask registers) is the set of its set bit positions; register  *)
(* offsets are integers, decoded by the hardware model.                    *)
(*                                                                         *)
(* Specifications:                                                         *)
(*   Spec       from the boot state: vIPI mask/unmask, send, drain         *)
(*   SpecNest   as Spec, with mask/unmask calls made by channel handlers   *)
(*   SpecReady  from the state with every vIPI enabled: sends and drains   *)
(*   SpecLive   as SpecReady, with the fairness of running CPUs            *)
(*   SpecMem    as SpecReady, with delayed ordinary stores and early loads *)
(*   SpecIrq    from the boot state: the hardware lines                    *)
(*   SpecAff    from the boot state: aic_irq_set_affinity calls            *)
(*   SpecProbe  from any state of the controller: the probe, with every    *)
(*              outcome of its steps                                       *)
(*   SpecEvt    vIPIs and lines enabled: the event loop with every kind of *)
(*              event                                                      *)
(*   SpecFiq    exception entries and the fast-interrupt poll              *)
(*   SpecCold   CPUs coming online: the cold-start callback, then entries  *)
(*   SpecXlate  translations of interrupt specifiers                       *)
(*   SpecChip   mask / unmask / eoi of the fast-source lines               *)
(***************************************************************************)
EXTENDS Integers, FiniteSets, Sequences, TLC

\* ------------------------------------------------------------------ bounds
NCPU == 3            \* CPUs
NCH == 2             \* vIPI channels in use (at most AIC_NR_SWIPI)
MaxSends == 1        \* send calls in a run that starts at boot
MaxMaskOps == 3      \* vIPI mask/unmask calls in a run that starts at boot
MaxSendsReady == 2   \* send calls in a run that starts with the vIPIs enabled
MaxStores == 2       \* ordinary stores of the callers in a SpecMem run
NLines == 3          \* hardware lines exercised
MaxTargets == 1      \* CPUs in the target set of a send in SpecLive and SpecMem
MaxAffCalls == 2     \* aic_irq_set_affinity calls in a run
NProbe == 3          \* hardware line counts the probe is run with
MaxOdd == 1          \* reads of an event the controller is not expected to report
MaxCold == 1         \* aic_init_cpu calls in a run

CPUs == 0 .. (NCPU - 1)
Channels == 0 .. (NCH - 1)

\* the lines exercised: two that share a mask register, one in the next
\* register, the last line, ...
LineSeq == <<0, 1, 32, 895, 33, 31>>
Lines == {LineSeq[k] : k \in 1 .. NLines}

\* ------------------------------------------------------- program constants
AIC_NR_SWIPI == 32
AIC_NR_FIQ == 4
AIC_EVENT_TYPE_HW == 1
AIC_EVENT_TYPE_IPI == 4
AIC_EVENT_IPI_OTHER == 1
AIC_EVENT_IPI_SELF == 2
AIC_EVENT_NUM_BITS == 16
AIC_IRQ == 0
AIC_FIQ == 1
AIC_IPI == 2
nr_hw == 896

VARIABLES
    aic_vipi_flag,   \* [CPUs -> SUBSET Channels]  pending vIPI bits
    aic_vipi_mask,   \* [CPUs -> SUBSET Channels]  unmasked vIPI bits
    ipi_pend,        \* [CPUs -> BOOLEAN]  hardware: "other" IPI latched
    ipi_hwmask,      \* [CPUs -> BOOLEAN]  hardware: "other" IPI masked
    pc,              \* [CPUs -> position of the CPU in the driver]
    snd,             \* [CPUs -> locals of aic_ipi_send_mask]
    firing,          \* [CPUs -> SUBSET Channels]  local of aic_handle_ipi
    idx,             \* [CPUs -> Nat]  loop index i of aic_handle_ipi
    dlog,            \* [CPUs -> Seq]  the accesses of the drain in progress, in order
    cur_irq,         \* [CPUs -> line]  local irq of aic_handle_irq (-1: none)
    \* hardware lines
    unmasked,        \* hardware: the lines whose mask bit is clear
    irqd,            \* [Lines -> flags of the line's irq_data]
    \* ordinary memory of the callers
    wr,              \* [CPUs -> Nat]  ordinary stores issued by the CPU
    vis,             \* [CPUs -> SUBSET Nat]  those that have reached memory
    early,           \* [CPUs -> loads performed ahead of program order]
    \* history (never read by the modelled code)
    dispatched,      \* [CPUs -> [Channels -> Nat]]  handler invocations
    tgt,             \* [CPUs -> SUBSET Channels]  c was sent with t in S
    obs,             \* [CPUs -> SUBSET Channels]  a sender saw c unmasked on t
    nsend,           \* number of send calls started
    maxsend,         \* the bound on nsend in this run (fixed by the initial state)
    nmask,           \* number of vIPI mask/unmask calls
    lmask,           \* the last vIPI mask/unmask call
    quiet,           \* [CPUs -> BOOLEAN]  no send in flight since the drain began
    ndrain,          \* [CPUs -> 0..2]  drains started (saturating)
    tag,             \* [CPUs -> [Channels -> the stores <<s, k>> issued before the sends of the bit]]
    took,            \* [CPUs -> the tags of the bits the drain exchanged]
    lastreq,         \* [Lines -> "mask" | "unmask"]  last explicit request
    lop,             \* the last operation on a hardware line
    \* locals of aic_handle_irq and the history of the event being routed
    ev,              \* [CPUs -> Nat]  local event: the last value read from AIC_EVENT
    handled,         \* [CPUs -> Seq]  hw-domain lines whose handler ran since the read
    logged,          \* [CPUs -> BOOLEAN]  pr_err was called since the read
    nodd,            \* number of reads of an unexpected event
    \* line affinity
    aic_target,      \* hardware: [line -> bits of its AIC_TARGET_CPU register]
    eff_aff,         \* [line -> the recorded effective affinity]
    laff,            \* the last aic_irq_set_affinity call
    \* probe
    info_nr_hw,      \* hardware: the line count in AIC_INFO
    ic_nr_hw,        \* ic->nr_hw (0 until the probe stores it)
    sw_set,          \* hardware: the lines whose software-trigger bit is set
    probe,           \* the aic_of_ic_init call and what it left behind
    xl,              \* Seq: the last two aic_irq_domain_xlate calls
    \* fast interrupts
    fiq,             \* [CPUs -> the poll of aic_handle_fiq in progress]
    \* exception entry
    isr,             \* [CPUs -> local isr of aic_handle_irq_or_fiq]
    ran,             \* [CPUs -> Seq]  the paths called since the entry
    \* per-CPU system registers and CPU bring-up
    sysreg,          \* [CPUs -> the fast-source registers, where tracked]
    cold,            \* [CPUs -> the aic_init_cpu call made on the CPU]
    ncold,           \* number of aic_init_cpu calls
    \* the FIQ irqchip
    vmtmr,           \* hardware: [CPUs -> the bits set in SYS_APL_VM_TMR_MASK]
    lchip            \* the last call of a fiq_chip callback

wordvars == <<aic_vipi_flag, aic_vipi_mask>>
ipihwvars == <<ipi_pend, ipi_hwmask>>
drainvars == <<firing, idx, dlog>>
memvars == <<wr, vis, early, tag, took>>
linevars == <<unmasked, irqd, lastreq, lop, cur_irq>>
countvars == <<nsend, maxsend, nmask, lmask>>
histvars == <<dispatched, tgt, obs, quiet, ndrain>>
ipivars == <<wordvars, ipihwvars, drainvars, snd, countvars, histvars, memvars>>
evtvars == <<ev, handled, logged, nodd>>
affvars == <<aic_target, eff_aff, laff>>
probevars == <<info_nr_hw, ic_nr_hw, sw_set, probe, xl>>
entryvars == <<isr, ran>>
coldvars == <<sysreg, cold, ncold>>
chipvars == <<vmtmr, lchip>>
cpuvars == <<fiq, entryvars, coldvars, chipvars>>
restvars == <<affvars, probevars, cpuvars>>

vars == <<aic_vipi_flag, aic_vipi_mask, ipi_pend, ipi_hwmask, pc, snd, firing,
          idx, dlog, cur_irq, unmasked, irqd, wr, vis, early, dispatched, tgt, obs,
          nsend, maxsend, nmask, lmask, quiet, ndrain, tag, took, lastreq, lop,
          ev, handled, logged, nodd, aic_target, eff_aff, laff, info_nr_hw,
          ic_nr_hw, sw_set, probe, xl, fiq, isr, ran, sysreg, cold, ncold,
          vmtmr, lchip>>

\* locals of aic_ipi_send_mask (ch, todo, cur, send) and the history of the
\* call: S the mask argument, ver the caller's stores issued before the call,
\* seen the CPUs whose mask word had the bit when it was read, ored the CPUs
\* whose flag word the call changed, nwr and wrote the number of writes to
\* AIC_IPI_SEND and the value written
NoSend == [ch |-> 0, S |-> {}, todo |-> {}, cur |-> 0, send |-> {}, ver |-> 0,
           seen |-> {}, ored |-> {}, nwr |-> 0, wrote |-> {}]

\* no aic_ipi_mask or aic_ipi_unmask call yet. The record of a call: op the
\* function, cpu the CPU it ran on, ch its channel, hw the register of the
\* controller it wrote (none, AIC_IPI_MASK_SET or AIC_IPI_MASK_CLR)
NoMask == [op |-> "none", cpu |-> 0, ch |-> 0, hw |-> "none",
           nested |-> FALSE]

NoTags == [c \in Channels |-> {}]
NoEarly == [on |-> FALSE, val |-> [s \in CPUs |-> {}]]
NoLop == [op |-> "none", line |-> 0, before |-> {}, wr |-> FALSE,
          dis |-> FALSE, msk |-> FALSE]

\* the event register read as 0: no event
NoEvent == 0

\* hardware: the value of AIC_EVENT for a type and a number
Event(type, num) == type * (2 ^ AIC_EVENT_NUM_BITS) + num

\* type = FIELD_GET(AIC_EVENT_TYPE, event)
AIC_EVENT_TYPE(event) == event \div (2 ^ AIC_EVENT_NUM_BITS)

\* mutant: only the low five bits of the number are taken
AIC_EVENT_NUM_low(event) == event % 32

\* irq = FIELD_GET(AIC_EVENT_NUM, event)
AIC_EVENT_NUM(event) == event % (2 ^ AIC_EVENT_NUM_BITS)

\* aic_handle_irq: the branch taken for an event
Route(event) ==
    IF AIC_EVENT_TYPE(event) = AIC_EVENT_TYPE_HW THEN "hw"
    ELSE IF AIC_EVENT_TYPE(event) = AIC_EVENT_TYPE_IPI /\ AIC_EVENT_NUM(event) = 1
         THEN "ipi"
    ELSE IF event # 0 THEN "spurious"
    ELSE "none"

\* mutant: the loop ends at an event it does not know
LoopContinues_known(event) == Route(event) \in {"hw", "ipi"}

\* } while (event);
LoopContinues(event) == event # 0

\* no aic_irq_set_affinity call yet. The record of a call: n its number, its
\* arguments
\* (hwirq, mask the requested CPUs, force), online the online CPUs during
\* the call, ret the value returned, cpu the local cpu (-1: not assigned),
\* wr the writes to the AIC_TARGET_CPU bank as <<slot, value>>, upd the
\* effective affinity was updated, target and eff the registers and the
\* effective affinities before the call
NoAff == [n |-> 0, hwirq |-> -1, mask |-> {}, force |-> FALSE, online |-> {},
          ret |-> "none", cpu |-> -1, wr |-> {}, upd |-> FALSE,
          target |-> <<>>, eff |-> <<>>]

\* no aic_handle_fiq poll in progress. The record of a poll: sr the pending
\* bit read from IPI_SR, ack the pending bit was written back, ctl the four
\* timer control values read, calls the hw-domain lines dispatched in
\* order, pmc and upmc the states read of the two performance counters,
\* pmc_off and upmc_off their interrupt mode was switched off, after the
\* values of IPI_SR and of the counters when the poll returns
NoFiq == [on |-> FALSE, sr |-> FALSE, ack |-> FALSE, ctl |-> <<>>,
          calls |-> <<>>, pmc |-> <<>>, pmc_off |-> FALSE, upmc |-> <<>>,
          upmc_off |-> FALSE, after |-> <<>>]

\* aic_of_ic_init was not called. The record of a call: failed the first
\* step that failed (none: every step succeeded), base_ipi the value
\* __irq_domain_alloc_irqs returned (when called), ret the value returned,
\* regs the mapping of the register block, irqc the kzalloc'ed structure,
\* aic_irqc the static pointer, hw_domain and ipi_domain the two domains,
\* ipi_range set_smp_ipi_range was called, handler set_handle_irq was
\* called, wrote a controller register was written, cpuhp the cold-start
\* callback was registered
NoProbe == [failed |-> "none", base_ipi |-> 0, ret |-> "none", regs |-> "none",
            irqc |-> "none", aic_irqc |-> "null", hw_domain |-> "none",
            ipi_domain |-> "none", ipi_range |-> FALSE, handler |-> FALSE,
            wrote |-> FALSE, cpuhp |-> FALSE]

\* the record of a call in which every step succeeded
ProbeOk == [failed |-> "none", base_ipi |-> 1, ret |-> "ok", regs |-> "mapped",
            irqc |-> "live", aic_irqc |-> "live", hw_domain |-> "live",
            ipi_domain |-> "live", ipi_range |-> TRUE, handler |-> TRUE,
            wrote |-> TRUE, cpuhp |-> TRUE]

\* no exception entry in progress. The record of an entry: f and i the
\* PSR_F_BIT and PSR_I_BIT of the value read from isr_el1
NoIsr == [on |-> FALSE, f |-> FALSE, i |-> FALSE]

\* the registers of a CPU are not tracked: a read returns any value
Unknown == [known |-> FALSE]

\* aic_init_cpu was not called on the CPU. The record of a call: match the
\* value read from AIC_WHOAMI equals smp_processor_id(), warned WARN_ON
\* fired, ret the value returned
NoCold == [done |-> FALSE, match |-> TRUE, warned |-> FALSE, ret |-> 0]

\* no fiq_chip callback was called. The record of a call: op the callback,
\* cpu the CPU it ran on, d the hwirq of its irq_data, before the value of
\* SYS_APL_VM_TMR_MASK on that CPU when it was entered
NoChip == [op |-> "none", cpu |-> 0, d |-> [base |-> 0, tmr |-> "none"],
           before |-> {}]

Min(s) == CHOOSE x \in s : \A y \in s : x <= y

\* the call still has accesses to make
InSend(s) == pc[s] \in {"send_loop", "send_or"}
InDrain(t) == pc[t] \in {"ipi_ack", "ipi_xchg", "ipi_disp", "ipi_unmask"}

\* for_each_set_bit: the set bits of firing not below the loop index
Remaining(t) == {c \in firing[t] : c >= idx[t]}

\* --------------------------------------------------------- the initial state
\* aic_of_ic_init has masked every line. The irq core starts every line
\* disabled and masked.
InitLines ==
    /\ unmasked = {}
    /\ irqd = [l \in Lines |-> [masked |-> TRUE, disabled |-> TRUE]]
    /\ lastreq = [l \in Lines |-> "mask"]
    /\ lop = NoLop
    /\ cur_irq = [t \in CPUs |-> -1]

\* no exception entry, poll or cold-start callback has run; the values of
\* the per-CPU system registers are not tracked
InitCpu ==
    /\ lchip = NoChip
    /\ isr = [t \in CPUs |-> NoIsr]
    /\ ran = [t \in CPUs |-> <<>>]
    /\ sysreg = [t \in CPUs |-> Unknown]
    /\ cold = [t \in CPUs |-> NoCold]
    /\ ncold = 0

\* the state the probe leaves: nothing read from the event register, every
\* target register 1 (CPU 0), no software trigger set
InitDriver ==
    /\ ev = [t \in CPUs |-> NoEvent]
    /\ handled = [t \in CPUs |-> <<>>]
    /\ logged = [t \in CPUs |-> FALSE]
    /\ nodd = 0
    /\ aic_target = [l \in Lines |-> {0}]
    /\ eff_aff = [l \in Lines |-> {}]
    /\ laff = NoAff
    /\ info_nr_hw = nr_hw
    /\ ic_nr_hw = nr_hw
    /\ sw_set = {}
    /\ probe = ProbeOk
    /\ xl = <<>>
    /\ fiq = [t \in CPUs |-> NoFiq]
    /\ InitCpu

\* SYS_APL_VM_TMR_MASK is written by aic_fiq_mask and aic_fiq_unmask only;
\* where these are not called one value stands for every value it can hold
InitVm == vmtmr = [t \in CPUs |-> {}]

InitRest == InitDriver /\ InitVm

InitMem ==
    /\ wr = [s \in CPUs |-> 0]
    /\ vis = [s \in CPUs |-> {}]
    /\ early = [t \in CPUs |-> NoEarly]
    /\ tag = [t \in CPUs |-> NoTags]
    /\ took = [t \in CPUs |-> NoTags]

InitIdle ==
    /\ aic_vipi_flag = [t \in CPUs |-> {}]
    /\ ipi_pend = [t \in CPUs |-> FALSE]
    /\ pc = [t \in CPUs |-> "idle"]
    /\ snd = [t \in CPUs |-> NoSend]
    /\ firing = [t \in CPUs |-> {}]
    /\ idx = [t \in CPUs |-> 0]
    /\ dlog = [t \in CPUs |-> <<>>]
    /\ dispatched = [t \in CPUs |-> [c \in Channels |-> 0]]
    /\ tgt = [t \in CPUs |-> {}]
    /\ obs = [t \in CPUs |-> {}]
    /\ nsend = 0
    /\ nmask = 0
    /\ lmask = NoMask
    /\ quiet = [t \in CPUs |-> FALSE]
    /\ ndrain = [t \in CPUs |-> 0]

\* The boot state. The static atomics are zero. aic_of_ic_init and
\* aic_init_cpu never write the IPI mask register, so it holds its reset
\* value, which is not known: masked or unmasked, the same in every CPU's
\* banked copy.
Init ==
    /\ InitIdle /\ InitMem /\ InitLines /\ InitRest
    /\ aic_vipi_mask = [t \in CPUs |-> {}]
    /\ \E reset \in BOOLEAN : ipi_hwmask = [t \in CPUs |-> reset]
    /\ maxsend = MaxSends

\* ------------------------------------------------------------------ memory
\* wmb(): the stores the CPU issued before the barrier reach memory before
\* any store it issues after it
wmb(s) == [vis EXCEPT ![s] = 1 .. wr[s]]

\* mutant: the first barrier of aic_ipi_send_mask is missing
SendEntryBarrier_none(s) == vis

\* the first wmb() of aic_ipi_send_mask
SendEntryBarrier(s) == wmb(s)

\* what a load of sender s's data by CPU t returns: the value loaded early,
\* when there is one, else what is in memory
Loaded(t, s) == IF early[t].on THEN early[t].val[s] ELSE vis[s]

\* ------------------------------------------------------------------- send
\* aic_ipi_send_mask: entry, irq_bit, send = 0 and the first wmb()
aic_ipi_send_mask(s, c, S) ==
    /\ pc[s] = "idle"
    /\ nsend < maxsend
    /\ pc' = [pc EXCEPT ![s] = "send_loop"]
    /\ snd' = [snd EXCEPT ![s] = [NoSend EXCEPT !.ch = c, !.S = S, !.todo = S,
                                               !.ver = wr[s]]]
    /\ vis' = SendEntryBarrier(s)
    /\ nsend' = nsend + 1
    /\ tgt' = [t \in CPUs |-> IF t \in S THEN tgt[t] \cup {c} ELSE tgt[t]]
    /\ quiet' = [t \in CPUs |-> FALSE]
    /\ UNCHANGED <<evtvars, restvars, wordvars, ipihwvars, drainvars, linevars, maxsend, nmask, lmask,
                   dispatched, obs, ndrain, wr, early, tag, took>>

\* mutant: the flag bit is set without looking at the target's mask word
SendSeesUnmasked_nocheck(s, cpu) == TRUE

\* the test of the loop body: atomic_read(&aic_vipi_mask[cpu]) & irq_bit
SendSeesUnmasked(s, cpu) == snd[s].ch \in aic_vipi_mask[cpu]

\* for_each_cpu(cpu, mask): the next CPU and the atomic_read of its mask word
send_read(s) ==
    /\ pc[s] = "send_loop"
    /\ snd[s].todo # {}
    /\ LET cpu == Min(snd[s].todo)
           hit == snd[s].ch \in aic_vipi_mask[cpu]
       IN
        /\ obs' = [obs EXCEPT ![cpu] = IF hit THEN @ \cup {snd[s].ch} ELSE @]
        /\ IF SendSeesUnmasked(s, cpu)
           THEN /\ pc' = [pc EXCEPT ![s] = "send_or"]
                /\ snd' = [snd EXCEPT ![s].cur = cpu,
                                      ![s].seen = IF hit THEN @ \cup {cpu} ELSE @]
           ELSE /\ pc' = pc
                /\ snd' = [snd EXCEPT ![s].todo = @ \ {cpu},
                                      ![s].seen = IF hit THEN @ \cup {cpu} ELSE @]
    /\ UNCHANGED <<evtvars, restvars, wordvars, ipihwvars, drainvars, linevars, memvars, countvars,
                   dispatched, tgt, quiet, ndrain>>

\* mutant: atomic_set instead of atomic_or, the other pending bits are lost
send_or_set(s) ==
    /\ pc[s] = "send_or"
    /\ LET cpu == snd[s].cur IN
        /\ aic_vipi_flag' = [aic_vipi_flag EXCEPT ![cpu] = {snd[s].ch}]
        /\ tag' = [tag EXCEPT ![cpu][snd[s].ch] =
                     @ \cup {<<s, k>> : k \in 1 .. snd[s].ver}]
        /\ snd' = [snd EXCEPT ![s].send = @ \cup {cpu},
                              ![s].ored = @ \cup {cpu},
                              ![s].todo = @ \ {cpu}]
    /\ pc' = [pc EXCEPT ![s] = "send_loop"]
    /\ UNCHANGED <<evtvars, restvars, aic_vipi_mask, ipihwvars, drainvars, linevars, countvars,
                   histvars, wr, vis, early, took>>

\* mutant: send = AIC_IPI_SEND_CPU(cpu), the bits of the earlier CPUs are lost
SendAccumulate_last(send, cpu) == {cpu}

\* send |= AIC_IPI_SEND_CPU(cpu)
SendAccumulate(send, cpu) == send \cup {cpu}

\* atomic_or(irq_bit, &aic_vipi_flag[cpu]); send |= AIC_IPI_SEND_CPU(cpu)
send_or(s) ==
    /\ pc[s] = "send_or"
    /\ LET cpu == snd[s].cur IN
        /\ aic_vipi_flag' = [aic_vipi_flag EXCEPT ![cpu] = @ \cup {snd[s].ch}]
        /\ tag' = [tag EXCEPT ![cpu][snd[s].ch] =
                     @ \cup {<<s, k>> : k \in 1 .. snd[s].ver}]
        /\ snd' = [snd EXCEPT ![s].send = SendAccumulate(@, cpu),
                              ![s].ored = @ \cup {cpu},
                              ![s].todo = @ \ {cpu}]
    /\ pc' = [pc EXCEPT ![s] = "send_loop"]
    /\ UNCHANGED <<evtvars, restvars, aic_vipi_mask, ipihwvars, drainvars, linevars, countvars,
                   histvars, wr, vis, early, took>>

\* mutant: the statement after the loop runs before the loop has ended
SendLoopDone_early(s) == TRUE

\* for_each_cpu(cpu, mask) has gone through every CPU of the mask
SendLoopDone(s) == snd[s].todo = {}

\* mutant: the send register is written whatever the value of send
SendWrites_always(s) == TRUE

\* if (send)
SendWrites(s) == snd[s].send # {}

\* if (send) { wmb(); aic_ic_write(ic, AIC_IPI_SEND, send); }
\* hardware: a write to AIC_IPI_SEND latches the IPI of every CPU whose bit is set
send_write(s) ==
    /\ pc[s] = "send_loop"
    /\ SendLoopDone(s)
    /\ IF SendWrites(s)
       THEN /\ ipi_pend' = [t \in CPUs |-> ipi_pend[t] \/ t \in snd[s].send]
            /\ snd' = [snd EXCEPT ![s].nwr = @ + 1, ![s].wrote = snd[s].send]
            /\ vis' = wmb(s)
       ELSE /\ ipi_pend' = ipi_pend
            /\ snd' = snd
            /\ vis' = vis
    /\ pc' = [pc EXCEPT ![s] = "send_ret"]
    /\ UNCHANGED <<evtvars, restvars, wordvars, ipi_hwmask, drainvars, linevars, countvars,
                   histvars, wr, early, tag, took>>

\* return from aic_ipi_send_mask
send_return(s) ==
    /\ pc[s] = "send_ret"
    /\ pc' = [pc EXCEPT ![s] = "idle"]
    /\ snd' = [snd EXCEPT ![s] = NoSend]
    /\ UNCHANGED <<evtvars, restvars, wordvars, ipihwvars, drainvars, linevars, countvars,
                   histvars, memvars>>

\* ------------------------------------------------------------ mask / unmask
\* aic_ipi_mask: atomic_and(~irq_bit, &aic_vipi_mask[this_cpu]);
\* if (!atomic_read(&aic_vipi_mask[this_cpu])) write AIC_IPI_MASK_SET.
\* The call runs on this_cpu with interrupts off, and only this_cpu reads its
\* banked IPI mask register, so the two statements are one step.
\* mutant: the whole mask word is cleared
IpiMaskWord_all(word, c) == {}

\* atomic_and(~irq_bit, &aic_vipi_mask[this_cpu]): the word after
IpiMaskWord(word, c) == word \ {c}

\* mutant: the hardware mask is set by every call
IpiMaskWritesSet_always(word) == TRUE

\* if (!atomic_read(&aic_vipi_mask[this_cpu]))
IpiMaskWritesSet(word) == word = {}

aic_ipi_mask(t, c) ==
    /\ pc[t] = "idle"
    /\ nmask < MaxMaskOps
    /\ aic_vipi_mask' = [aic_vipi_mask EXCEPT ![t] = IpiMaskWord(@, c)]
    /\ ipi_hwmask' = [ipi_hwmask EXCEPT ![t] =
                        IF IpiMaskWritesSet(IpiMaskWord(aic_vipi_mask[t], c))
                        THEN TRUE ELSE @]
    /\ nmask' = nmask + 1
    /\ lmask' = [op |-> "mask", cpu |-> t, ch |-> c,
                 hw |-> IF IpiMaskWritesSet(IpiMaskWord(aic_vipi_mask[t], c))
                        THEN "AIC_IPI_MASK_SET" ELSE "none",
                 nested |-> FALSE]
    /\ UNCHANGED <<evtvars, restvars, aic_vipi_flag, ipi_pend, pc, snd, drainvars, linevars,
                   memvars, histvars, nsend, maxsend>>

\* mutant: aic_ipi_unmask does not write the register
IpiUnmaskHw_keep(masked) == masked

\* aic_ic_write(ic, AIC_IPI_MASK_CLR, AIC_IPI_OTHER): the mask of the
\* physical IPI after the write
IpiUnmaskHw(masked) == FALSE

\* aic_ipi_unmask: atomic_or(irq_bit, &aic_vipi_mask[this_cpu]);
\* aic_ic_write(ic, AIC_IPI_MASK_CLR, AIC_IPI_OTHER)
aic_ipi_unmask(t, c) ==
    /\ pc[t] = "idle"
    /\ nmask < MaxMaskOps
    /\ aic_vipi_mask' = [aic_vipi_mask EXCEPT ![t] = @ \cup {c}]
    /\ ipi_hwmask' = [ipi_hwmask EXCEPT ![t] = IpiUnmaskHw(@)]
    /\ nmask' = nmask + 1
    /\ lmask' = [op |-> "unmask", cpu |-> t, ch |-> c,
                 hw |-> "AIC_IPI_MASK_CLR",
                 nested |-> FALSE]
    /\ UNCHANGED <<evtvars, restvars, aic_vipi_flag, ipi_pend, pc, snd, drainvars, linevars,
                   memvars, histvars, nsend, maxsend>>

\* ------------------------------------------------------------------ drain
\* hardware: the "other" IPI is reported by AIC_EVENT when latched and unmasked
IpiEvent(t) == ipi_pend[t] /\ ~ipi_hwmask[t]

\* aic_handle_irq: readl(AIC_EVENT) returns (IPI, 1); the read masks the IPI
irq_read_ipi(t) ==
    /\ pc[t] \in {"idle", "irq_read"}
    /\ IpiEvent(t)
    /\ Route(Event(AIC_EVENT_TYPE_IPI, AIC_EVENT_IPI_OTHER)) = "ipi"
    /\ ipi_hwmask' = [ipi_hwmask EXCEPT ![t] = TRUE]
    /\ pc' = [pc EXCEPT ![t] = "ipi_ack"]
    /\ quiet' = [quiet EXCEPT ![t] = \A s \in CPUs : ~InSend(s)]
    /\ ndrain' = [ndrain EXCEPT ![t] = IF @ < 2 THEN @ + 1 ELSE @]
    /\ ev' = [ev EXCEPT ![t] = Event(AIC_EVENT_TYPE_IPI, AIC_EVENT_IPI_OTHER)]
    /\ handled' = [handled EXCEPT ![t] = <<>>]
    /\ logged' = [logged EXCEPT ![t] = FALSE]
    /\ dlog' = [dlog EXCEPT ![t] = <<>>]
    /\ UNCHANGED <<restvars, nodd, wordvars, ipi_pend, snd, firing, idx, linevars, memvars,
                   countvars, dispatched, tgt, obs>>

\* aic_handle_irq: readl(AIC_EVENT) returns 0 and the loop ends
irq_read_none(t) ==
    /\ pc[t] = "irq_read"
    /\ ~IpiEvent(t)
    /\ Route(NoEvent) = "none"
    /\ pc' = [pc EXCEPT ![t] = IF LoopContinues(NoEvent) THEN "irq_read"
                                ELSE "idle"]
    /\ ev' = [ev EXCEPT ![t] = NoEvent]
    /\ handled' = [handled EXCEPT ![t] = <<>>]
    /\ logged' = [logged EXCEPT ![t] = FALSE]
    /\ isr' = [isr EXCEPT ![t] = IF LoopContinues(NoEvent) THEN @ ELSE NoIsr]
    /\ ran' = [ran EXCEPT ![t] = IF LoopContinues(NoEvent) THEN @ ELSE <<>>]
    /\ UNCHANGED <<ipivars, linevars, affvars, probevars, fiq, coldvars, chipvars, nodd>>

\* aic_handle_ipi: aic_ic_write(aic_irqc, AIC_IPI_ACK, AIC_IPI_OTHER); mb()
aic_handle_ipi_ack(t) ==
    /\ pc[t] = "ipi_ack"
    /\ ipi_pend' = [ipi_pend EXCEPT ![t] = FALSE]
    /\ pc' = [pc EXCEPT ![t] = "ipi_xchg"]
    /\ dlog' = [dlog EXCEPT ![t] = Append(@, <<"ack", 0>>)]
    /\ UNCHANGED <<evtvars, restvars, wordvars, ipi_hwmask, snd, firing, idx, linevars, memvars,
                   countvars, histvars>>

\* mutant: the exchange clears the flag word of every CPU
DrainExchange_all(t) == [u \in CPUs |-> {}]

\* atomic_xchg(&aic_vipi_flag[this_cpu], 0): the flag words after
DrainExchange(t) == [aic_vipi_flag EXCEPT ![t] = {}]

\* mutant: a drain that finds no bit returns at once
AfterExchange_ret(word) == IF word = {} THEN "irq_read" ELSE "ipi_disp"

\* for_each_set_bit(i, &firing, AIC_NR_SWIPI): the loop body is entered when
\* a bit is set, otherwise the statement after the loop is next
AfterExchange(word) == IF word = {} THEN "ipi_unmask" ELSE "ipi_disp"

\* firing = atomic_xchg(&aic_vipi_flag[this_cpu], 0); rmb()
\* The exchange is fully ordered and the read barrier follows it: no load
\* performed before the exchange serves a load of the handlers.
aic_handle_ipi_xchg(t) ==
    /\ pc[t] = "ipi_xchg"
    /\ firing' = [firing EXCEPT ![t] = aic_vipi_flag[t]]
    /\ aic_vipi_flag' = DrainExchange(t)
    /\ took' = [took EXCEPT ![t] = tag[t]]
    /\ tag' = [tag EXCEPT ![t] = NoTags]
    /\ early' = [early EXCEPT ![t] = NoEarly]
    /\ idx' = [idx EXCEPT ![t] = 0]
    /\ dlog' = [dlog EXCEPT ![t] = Append(@, <<"xchg", 0>>)]
    /\ pc' = [pc EXCEPT ![t] = AfterExchange(aic_vipi_flag[t])]
    /\ UNCHANGED <<evtvars, restvars, aic_vipi_mask, ipihwvars, snd, linevars, countvars,
                   histvars, wr, vis>>

\* for_each_set_bit(i, &firing, AIC_NR_SWIPI) handle_domain_irq(ipi_domain, i);
\* the loop ends after the last set bit
aic_handle_ipi_dispatch(t) ==
    /\ pc[t] = "ipi_disp"
    /\ Remaining(t) # {}
    /\ LET i == Min(Remaining(t)) IN
        /\ i < AIC_NR_SWIPI
        /\ dispatched' = [dispatched EXCEPT ![t][i] = @ + 1]
        /\ idx' = [idx EXCEPT ![t] = i + 1]
        /\ dlog' = [dlog EXCEPT ![t] = Append(@, <<"disp", i>>)]
        /\ pc' = [pc EXCEPT ![t] = IF Remaining(t) \ {i} = {} THEN "ipi_unmask"
                                                              ELSE "ipi_disp"]
    /\ UNCHANGED <<evtvars, restvars, wordvars, ipihwvars, snd, firing, linevars, memvars,
                   countvars, tgt, obs, quiet, ndrain>>

\* mutant: the drain ends without clearing the mask of the physical IPI
aic_handle_ipi_unmask_skip(t) ==
    /\ pc[t] = "ipi_unmask"
    /\ pc' = [pc EXCEPT ![t] = "irq_read"]
    /\ firing' = [firing EXCEPT ![t] = {}]
    /\ idx' = [idx EXCEPT ![t] = 0]
    /\ dlog' = [dlog EXCEPT ![t] = <<>>]
    /\ quiet' = [quiet EXCEPT ![t] = FALSE]
    /\ took' = [took EXCEPT ![t] = NoTags]
    /\ UNCHANGED <<evtvars, restvars, wordvars, ipihwvars, snd, linevars, countvars, dispatched,
                   tgt, obs, ndrain, wr, vis, early, tag>>

\* aic_ic_write(aic_irqc, AIC_IPI_MASK_CLR, AIC_IPI_OTHER); back to the loop
aic_handle_ipi_unmask(t) ==
    /\ pc[t] = "ipi_unmask"
    /\ ipi_hwmask' = [ipi_hwmask EXCEPT ![t] = FALSE]
    /\ pc' = [pc EXCEPT ![t] = "irq_read"]
    /\ firing' = [firing EXCEPT ![t] = {}]
    /\ idx' = [idx EXCEPT ![t] = 0]
    /\ dlog' = [dlog EXCEPT ![t] = <<>>]
    /\ quiet' = [quiet EXCEPT ![t] = FALSE]
    /\ took' = [took EXCEPT ![t] = NoTags]
    /\ UNCHANGED <<evtvars, restvars, wordvars, ipi_pend, snd, linevars, countvars, dispatched,
                   tgt, obs, ndrain, wr, vis, early, tag>>

\* -------------------------------------------------------------------- Next
Next ==
    \/ \E s \in CPUs, c \in Channels, S \in SUBSET CPUs \ {{}} : aic_ipi_send_mask(s, c, S)
    \/ \E s \in CPUs : send_read(s)
    \/ \E s \in CPUs : send_or(s)
    \/ \E s \in CPUs : send_write(s)
    \/ \E s \in CPUs : send_return(s)
    \/ \E t \in CPUs, c \in Channels : aic_ipi_mask(t, c)
    \/ \E t \in CPUs, c \in Channels : aic_ipi_unmask(t, c)
    \/ \E t \in CPUs : irq_read_ipi(t)
    \/ \E t \in CPUs : irq_read_none(t)
    \/ \E t \in CPUs : aic_handle_ipi_ack(t)
    \/ \E t \in CPUs : aic_handle_ipi_xchg(t)
    \/ \E t \in CPUs : aic_handle_ipi_dispatch(t)
    \/ \E t \in CPUs : aic_handle_ipi_unmask(t)

Spec == Init /\ [][Next]_vars

\* ------------------------------------------- mask / unmask from a handler
\* a handler called by the drain in progress on t has run and the drain has
\* not yet cleared the mask of the physical IPI
InHandler(t) ==
    /\ pc[t] \in {"ipi_disp", "ipi_unmask"}
    /\ \E k \in 1 .. Len(dlog[t]) : dlog[t][k][1] = "disp"

\* aic_ipi_mask called by a channel handler
aic_ipi_mask_nested(t, c) ==
    /\ InHandler(t)
    /\ nmask < MaxMaskOps
    /\ aic_vipi_mask' = [aic_vipi_mask EXCEPT ![t] = IpiMaskWord(@, c)]
    /\ ipi_hwmask' = [ipi_hwmask EXCEPT ![t] =
                        IF IpiMaskWritesSet(IpiMaskWord(aic_vipi_mask[t], c))
                        THEN TRUE ELSE @]
    /\ nmask' = nmask + 1
    /\ lmask' = [op |-> "mask", cpu |-> t, ch |-> c,
                 hw |-> IF IpiMaskWritesSet(IpiMaskWord(aic_vipi_mask[t], c))
                        THEN "AIC_IPI_MASK_SET" ELSE "none",
                 nested |-> TRUE]
    /\ UNCHANGED <<evtvars, restvars, aic_vipi_flag, ipi_pend, pc, snd, drainvars, linevars,
                   memvars, histvars, nsend, maxsend>>

\* aic_ipi_unmask called by a channel handler
aic_ipi_unmask_nested(t, c) ==
    /\ InHandler(t)
    /\ nmask < MaxMaskOps
    /\ aic_vipi_mask' = [aic_vipi_mask EXCEPT ![t] = @ \cup {c}]
    /\ ipi_hwmask' = [ipi_hwmask EXCEPT ![t] = IpiUnmaskHw(@)]
    /\ nmask' = nmask + 1
    /\ lmask' = [op |-> "unmask", cpu |-> t, ch |-> c,
                 hw |-> "AIC_IPI_MASK_CLR",
                 nested |-> TRUE]
    /\ UNCHANGED <<evtvars, restvars, aic_vipi_flag, ipi_pend, pc, snd, drainvars, linevars,
                   memvars, histvars, nsend, maxsend>>

NextNest ==
    \/ Next
    \/ \E t \in CPUs, c \in Channels : aic_ipi_mask_nested(t, c)
    \/ \E t \in CPUs, c \in Channels : aic_ipi_unmask_nested(t, c)

SpecNest == Init /\ [][NextNest]_vars

\* ------------------------------------------------ runs with the vIPIs enabled
\* The state once every CPU has enabled every vIPI (aic_ipi_unmask of each
\* channel on each CPU, from the boot state): all mask bits set, the physical
\* IPI unmasked, nothing pending.
InitReady ==
    /\ InitIdle /\ InitMem /\ InitLines /\ InitRest
    /\ aic_vipi_mask = [t \in CPUs |-> Channels]
    /\ ipi_hwmask = [t \in CPUs |-> FALSE]
    /\ maxsend = MaxSendsReady

NextReady ==
    \/ \E s \in CPUs, c \in Channels, S \in SUBSET CPUs \ {{}} : aic_ipi_send_mask(s, c, S)
    \/ \E s \in CPUs : send_read(s)
    \/ \E s \in CPUs : send_or(s)
    \/ \E s \in CPUs : send_write(s)
    \/ \E s \in CPUs : send_return(s)
    \/ \E t \in CPUs : irq_read_ipi(t)
    \/ \E t \in CPUs : irq_read_none(t)
    \/ \E t \in CPUs : aic_handle_ipi_ack(t)
    \/ \E t \in CPUs : aic_handle_ipi_xchg(t)
    \/ \E t \in CPUs : aic_handle_ipi_dispatch(t)
    \/ \E t \in CPUs : aic_handle_ipi_unmask(t)

SpecReady == InitReady /\ [][NextReady]_vars

\* ------------------------------------------------------------ fair runs
\* what CPU t does once it has entered the driver: the rest of a send call,
\* taking an IPI that is reported to it, the drain
CpuStep(t) ==
    \/ send_read(t) \/ send_or(t) \/ send_write(t) \/ send_return(t)
    \/ irq_read_ipi(t) \/ irq_read_none(t)
    \/ aic_handle_ipi_ack(t) \/ aic_handle_ipi_xchg(t)
    \/ aic_handle_ipi_dispatch(t) \/ aic_handle_ipi_unmask(t)

\* A CPU keeps executing: the send and the drain are straight-line code and
\* bounded loops without waiting, and a CPU to which an IPI is reported takes
\* it. Whether a send is ever called is left open.
LiveFairness == \A t \in CPUs : WF_vars(CpuStep(t))

\* SpecLive and SpecMem send to at most MaxTargets CPUs at a time
SmallTargets == {S \in SUBSET CPUs : S # {} /\ Cardinality(S) <= MaxTargets}

NextLive ==
    \/ \E s \in CPUs, c \in Channels, S \in SmallTargets : aic_ipi_send_mask(s, c, S)
    \/ \E s \in CPUs : send_read(s)
    \/ \E s \in CPUs : send_or(s)
    \/ \E s \in CPUs : send_write(s)
    \/ \E s \in CPUs : send_return(s)
    \/ \E t \in CPUs : irq_read_ipi(t)
    \/ \E t \in CPUs : irq_read_none(t)
    \/ \E t \in CPUs : aic_handle_ipi_ack(t)
    \/ \E t \in CPUs : aic_handle_ipi_xchg(t)
    \/ \E t \in CPUs : aic_handle_ipi_dispatch(t)
    \/ \E t \in CPUs : aic_handle_ipi_unmask(t)

SpecLive == InitReady /\ [][NextLive]_vars /\ LiveFairness

\* ---------------------------------------------- runs with ordinary memory
\* the ordinary stores issued so far, <<s, k>> the k-th store of CPU s
Issued == {sk \in CPUs \X (1 .. MaxStores) : sk[2] <= wr[sk[1]]}

\* an ordinary store of a CPU outside the driver (the data a later IPI
\* announces); it sits in the CPU's store buffer
app_store(s) ==
    /\ pc[s] = "idle"
    /\ Cardinality(Issued) < MaxStores
    /\ wr' = [wr EXCEPT ![s] = @ + 1]
    /\ UNCHANGED <<evtvars, restvars, wordvars, ipihwvars, pc, snd, drainvars, linevars,
                   countvars, histvars, vis, early, tag, took>>

\* a buffered store reaches memory; buffered stores do so in any order
mem_commit(s, k) ==
    /\ k \in (1 .. wr[s]) \ vis[s]
    /\ vis' = [vis EXCEPT ![s] = @ \cup {k}]
    /\ UNCHANGED <<evtvars, restvars, wordvars, ipihwvars, pc, snd, drainvars, linevars,
                   countvars, histvars, wr, early, tag, took>>

\* the receiver performs loads of the handlers ahead of program order, after
\* the mb() and before the exchange
spec_load(t) ==
    /\ pc[t] = "ipi_xchg"
    /\ ~early[t].on
    /\ early' = [early EXCEPT ![t] = [on |-> TRUE, val |-> vis]]
    /\ UNCHANGED <<evtvars, restvars, wordvars, ipihwvars, pc, snd, drainvars, linevars,
                   countvars, histvars, wr, vis, tag, took>>

NextMem ==
    \/ \E s \in CPUs : app_store(s)
    \/ \E s \in CPUs, k \in 1 .. MaxStores : mem_commit(s, k)
    \/ \E t \in CPUs : spec_load(t)
    \/ \E s \in CPUs, c \in Channels, S \in SmallTargets : aic_ipi_send_mask(s, c, S)
    \/ \E s \in CPUs : send_read(s)
    \/ \E s \in CPUs : send_or(s)
    \/ \E s \in CPUs : send_write(s)
    \/ \E s \in CPUs : send_return(s)
    \/ \E t \in CPUs : irq_read_ipi(t)
    \/ \E t \in CPUs : irq_read_none(t)
    \/ \E t \in CPUs : aic_handle_ipi_ack(t)
    \/ \E t \in CPUs : aic_handle_ipi_xchg(t)
    \/ \E t \in CPUs : aic_handle_ipi_dispatch(t)
    \/ \E t \in CPUs : aic_handle_ipi_unmask(t)

SpecMem == InitReady /\ [][NextMem]_vars

\* ---------------------------------------------------------- hardware lines
\* mutant: every line is looked up in the first mask register
MASK_REG_zero(x) == 0

\* #define MASK_REG(x) (4 * ((x) >> 5))
MASK_REG(x) == 4 * (x \div 32)

\* mutant: the bit of the next line is written as well
MASK_BIT_pair(x) == {x % 32, (x + 1) % 32}

\* #define MASK_BIT(x) BIT((x) & 0x1f)
MASK_BIT(x) == {x % 32}

\* hardware: the lines addressed by the value val written at byte offset off
\* of a bank of per-line registers (AIC_MASK_SET, AIC_MASK_CLR)
RegLines(off, val) ==
    {32 * (off \div 4) + b : b \in val} \cap (0 .. (nr_hw - 1))

\* hardware: AIC_MASK_SET is write-1-to-set, AIC_MASK_CLR write-1-to-clear;
\* the operators give the unmasked lines after the write
WriteMaskSet(off, val) == unmasked \ RegLines(off, val)
WriteMaskClr(off, val) == unmasked \cup RegLines(off, val)

\* aic_irq_mask: the unmasked lines after
\* aic_ic_write(ic, AIC_MASK_SET + MASK_REG(d->hwirq), MASK_BIT(d->hwirq))
aic_irq_mask(l) == WriteMaskSet(MASK_REG(l), MASK_BIT(l))

\* aic_irq_unmask: the unmasked lines after
\* aic_ic_write(ic, AIC_MASK_CLR + MASK_REG(d->hwirq), MASK_BIT(d->hwirq))
aic_irq_unmask(l) == WriteMaskClr(MASK_REG(l), MASK_BIT(l))

\* mutant: acknowledge looks at the disabled flag only
EoiUnmasks_disabledonly(l) == ~irqd[l].disabled

\* aic_irq_eoi: if (!irqd_irq_disabled(d) && !irqd_irq_masked(d))
EoiUnmasks(l) == ~irqd[l].disabled /\ ~irqd[l].masked

\* aic_irq_eoi: the unmasked lines after the call
aic_irq_eoi(l) == IF EoiUnmasks(l) THEN aic_irq_unmask(l) ELSE unmasked

\* the line is between the event-register read that reported it and its eoi
InFlight(l) == \E t \in CPUs : cur_irq[t] = l

\* hardware: the CPU a line is delivered to, the one whose bit is in the
\* line's AIC_TARGET_CPU register (aic_of_ic_init writes 1: CPU 0)
TargetCpu(l) == IF aic_target[l] = {} THEN -1 ELSE Min(aic_target[l])

\* handle_domain_irq(hw_domain, hwirq): the handlers invoked. The domain is
\* linear with ic->nr_hw + AIC_NR_FIQ entries: a number beyond it has no
\* mapping and no handler is invoked; the numbers from ic->nr_hw on are the
\* per-CPU fast sources.
DomainHandlers(hwirq) ==
    IF hwirq < ic_nr_hw + AIC_NR_FIQ THEN <<hwirq>> ELSE <<>>

\* upper layers: a mask request; the irq core calls chip->irq_mask and
\* records the line as masked
mask_irq(l) ==
    /\ unmasked' = aic_irq_mask(l)
    /\ irqd' = [irqd EXCEPT ![l].masked = TRUE]
    /\ lastreq' = [lastreq EXCEPT ![l] = "mask"]
    /\ lop' = [NoLop EXCEPT !.op = "mask", !.line = l, !.before = unmasked]
    /\ UNCHANGED <<evtvars, restvars, ipivars, pc, cur_irq>>

\* upper layers: an unmask request; the irq core calls chip->irq_unmask and
\* records the line as not masked
unmask_irq(l) ==
    /\ unmasked' = aic_irq_unmask(l)
    /\ irqd' = [irqd EXCEPT ![l].masked = FALSE]
    /\ lastreq' = [lastreq EXCEPT ![l] = "unmask"]
    /\ lop' = [NoLop EXCEPT !.op = "unmask", !.line = l, !.before = unmasked]
    /\ UNCHANGED <<evtvars, restvars, ipivars, pc, cur_irq>>

\* upper layers: disable. aic_chip has no irq_disable callback: the irq core
\* marks the line disabled and writes nothing (it masks the line when it
\* next fires).
irq_disable(l) ==
    /\ ~irqd[l].disabled
    /\ irqd' = [irqd EXCEPT ![l].disabled = TRUE]
    /\ UNCHANGED <<evtvars, restvars, ipivars, pc, cur_irq, unmasked, lastreq, lop>>

\* upper layers: enable; the irq core clears the disabled mark (an unmask
\* request may follow)
irq_enable(l) ==
    /\ irqd[l].disabled
    /\ irqd' = [irqd EXCEPT ![l].disabled = FALSE]
    /\ UNCHANGED <<evtvars, restvars, ipivars, pc, cur_irq, unmasked, lastreq, lop>>

\* aic_handle_irq: readl(AIC_EVENT) returns (HW, l) for an asserted, unmasked
\* line targeted at this CPU; hardware: the read masks the line
irq_read_hw(t, l) ==
    /\ pc[t] \in {"idle", "irq_read"}
    /\ t = TargetCpu(l)
    /\ l \in unmasked
    /\ Route(Event(AIC_EVENT_TYPE_HW, l)) = "hw"
    /\ unmasked' = unmasked \ {l}
    /\ cur_irq' = [cur_irq EXCEPT ![t] = AIC_EVENT_NUM(Event(AIC_EVENT_TYPE_HW, l))]
    /\ pc' = [pc EXCEPT ![t] = "hw_flow"]
    /\ lop' = [NoLop EXCEPT !.op = "deliver", !.line = l, !.before = unmasked]
    /\ ev' = [ev EXCEPT ![t] = Event(AIC_EVENT_TYPE_HW, l)]
    /\ handled' = [handled EXCEPT ![t] =
                       DomainHandlers(AIC_EVENT_NUM(Event(AIC_EVENT_TYPE_HW, l)))]
    /\ logged' = [logged EXCEPT ![t] = FALSE]
    /\ UNCHANGED <<restvars, nodd, ipivars, irqd, lastreq>>

\* handle_domain_irq(hw_domain, irq): entry of the line's flow handler. A line
\* marked disabled is masked by the irq core and its handler is not run.
fasteoi_enter(t) ==
    /\ pc[t] = "hw_flow"
    /\ LET l == cur_irq[t] IN
        IF irqd[l].disabled
        THEN /\ unmasked' = aic_irq_mask(l)
             /\ irqd' = [irqd EXCEPT ![l].masked = TRUE]
             /\ lastreq' = [lastreq EXCEPT ![l] = "mask"]
             /\ lop' = [NoLop EXCEPT !.op = "mask", !.line = l, !.before = unmasked]
        ELSE UNCHANGED <<unmasked, irqd, lastreq, lop>>
    /\ pc' = [pc EXCEPT ![t] = "hw_run"]
    /\ UNCHANGED <<evtvars, restvars, ipivars, cur_irq>>

\* the handler has run (or was skipped): chip->irq_eoi, aic_irq_eoi
fasteoi_eoi(t) ==
    /\ pc[t] = "hw_run"
    /\ LET l == cur_irq[t] IN
        /\ unmasked' = aic_irq_eoi(l)
        /\ lop' = [op |-> "eoi", line |-> l, before |-> unmasked,
                   wr |-> EoiUnmasks(l), dis |-> irqd[l].disabled,
                   msk |-> irqd[l].masked]
    /\ cur_irq' = [cur_irq EXCEPT ![t] = -1]
    /\ pc' = [pc EXCEPT ![t] = "irq_read"]
    /\ UNCHANGED <<evtvars, restvars, ipivars, irqd, lastreq>>

NextIrq ==
    \/ \E l \in Lines : mask_irq(l)
    \/ \E l \in Lines : unmask_irq(l)
    \/ \E l \in Lines : irq_disable(l)
    \/ \E l \in Lines : irq_enable(l)
    \/ \E t \in CPUs, l \in Lines : irq_read_hw(t, l)
    \/ \E t \in CPUs : fasteoi_enter(t)
    \/ \E t \in CPUs : fasteoi_eoi(t)
    \/ \E t \in CPUs : irq_read_none(t)

SpecIrq == Init /\ [][NextIrq]_vars

\* ------------------------------------------------------------ line affinity
\* the value the cpumask searches return when no CPU is found (any value
\* from nr_cpu_ids on)
nr_cpu_ids == NCPU

\* cpumask_first(mask)
cpumask_first(m) == IF m = {} THEN nr_cpu_ids ELSE Min(m)

\* cpumask_any_and(a, b): the first CPU in both
cpumask_any_and(a, b) == cpumask_first(a \cap b)

\* mutant: the range check is dropped
AffinityRejects_never(hwirq) == FALSE

\* if (hwirq > ic->nr_hw) return -EINVAL;
AffinityRejects(hwirq) == hwirq > ic_nr_hw

\* mutant: force is ignored
AffinityCpu_noforce(mask_val, force, online) == cpumask_any_and(mask_val, online)

\* if (force) cpu = cpumask_first(mask_val);
\* else cpu = cpumask_any_and(mask_val, cpu_online_mask);
AffinityCpu(mask_val, force, online) ==
    IF force THEN cpumask_first(mask_val)
    ELSE cpumask_any_and(mask_val, online)

\* mutant: the bits of the lower CPUs are written as well
TargetBits_low(cpu) == {0 .. cpu}

\* BIT(cpu), the values the expression can have. For a CPU number the
\* searches return when they find none the shift count is nr_cpu_ids or
\* NR_CPUS, which can exceed the width of the operand: the bit of that
\* number, or the shift count wrapped to 0.
TargetBits(cpu) == IF cpu < nr_cpu_ids THEN {{cpu}} ELSE {{0}, {nr_cpu_ids}}

\* cpumask_of(cpu), the values the expression can have. For a CPU number
\* that is no CPU the lookup reads outside the table of single-CPU masks.
cpumask_of(cpu) == IF cpu < nr_cpu_ids THEN {{cpu}} ELSE {{}, {nr_cpu_ids}}

\* the hwirq arguments exercised: the lines, the slot after the last line
\* and the one after it
AffIrqs == Lines \cup {nr_hw, nr_hw + 1}

\* aic_irq_set_affinity(d, mask_val, force), while the CPUs of online are
\* online. Hardware: the AIC_TARGET_CPU bank has a register per line; a
\* write to a slot that is no line's is recorded in the call only.
aic_irq_set_affinity(hwirq, mask_val, force, online) ==
    LET call == [NoAff EXCEPT !.n = laff.n + 1,
                              !.hwirq = hwirq, !.mask = mask_val,
                              !.force = force, !.online = online,
                              !.target = aic_target, !.eff = eff_aff]
    IN
    /\ laff.n < MaxAffCalls
    /\ IF AffinityRejects(hwirq)
       THEN /\ laff' = [call EXCEPT !.ret = "EINVAL"]
            /\ UNCHANGED <<aic_target, eff_aff>>
       ELSE LET cpu == AffinityCpu(mask_val, force, online) IN
            \E val \in TargetBits(cpu), e \in cpumask_of(cpu) :
                /\ aic_target' = IF hwirq \in Lines
                                 THEN [aic_target EXCEPT ![hwirq] = val]
                                 ELSE aic_target
                /\ eff_aff' = IF hwirq \in Lines
                              THEN [eff_aff EXCEPT ![hwirq] = e]
                              ELSE eff_aff
                /\ laff' = [call EXCEPT !.ret = "IRQ_SET_MASK_OK",
                                        !.cpu = cpu,
                                        !.wr = {<<hwirq, val>>},
                                        !.upd = TRUE]
    /\ UNCHANGED <<ipivars, linevars, evtvars, probevars, cpuvars, pc>>

\* the online CPUs during a call: any non-empty set
OnlineSets == (SUBSET CPUs) \ {{}}

NextAff ==
    \E hwirq \in AffIrqs, mask_val \in SUBSET CPUs, force \in BOOLEAN,
       online \in OnlineSets :
        aic_irq_set_affinity(hwirq, mask_val, force, online)

SpecAff == Init /\ [][NextAff]_vars

\* ------------------------------------------------------------------ probe
\* the line counts AIC_INFO reports in the runs of the probe: the count of the
\* supported hardware, one more than a multiple of 32, a single line, ...
ProbeSeq == <<896, 33, 1, 64, 40>>
ProbeCounts == {ProbeSeq[k] : k \in 1 .. NProbe}

\* the lines observed in a run with n lines: the first, the last, the first
\* of the last register, and the lines exercised elsewhere that exist
ProbeLines(n) ==
    ({0, n - 1, 32 * ((n - 1) \div 32)} \cup Lines) \cap (0 .. (n - 1))

\* BITS_TO_U32(nr): the 32-bit words that hold nr bits
BITS_TO_U32(nr) == (nr + 31) \div 32

\* ~0: every bit of a 32-bit value
AllOnes == 0 .. 31

\* hardware: the lines whose bit is written by the value val at byte offset
\* off of a bank with one bit per line
WordLines(off, val) == {32 * (off \div 4) + b : b \in val}

\* mutant: the register of the last, partial group of lines is left out
ProbeRegs_floor(n) == 0 .. ((n \div 32) - 1)

\* for (i = 0; i < BITS_TO_U32(irqc->nr_hw); i++): the values of i
ProbeRegs(n) == 0 .. (BITS_TO_U32(n) - 1)

\* the lines written by aic_ic_write(irqc, bank + i * 4, ~0) over the loop
ProbeWritten(n) == UNION {WordLines(i * 4, AllOnes) : i \in ProbeRegs(n)}

\* the lines written by the loops, for each of the line counts of a run
ProbeWrittenOf == [n \in ProbeCounts |-> ProbeWritten(n)]

\* the state before the probe: the controller as the boot loader left it
\* (any line unmasked or software-triggered, any target), ic not allocated
InitProbe ==
    /\ InitIdle /\ InitMem
    /\ aic_vipi_mask = [t \in CPUs |-> {}]
    /\ \E reset \in BOOLEAN : ipi_hwmask = [t \in CPUs |-> reset]
    /\ maxsend = MaxSends
    /\ irqd = [l \in Lines |-> [masked |-> TRUE, disabled |-> TRUE]]
    /\ lastreq = [l \in Lines |-> "mask"]
    /\ lop = NoLop
    /\ cur_irq = [t \in CPUs |-> -1]
    /\ ev = [t \in CPUs |-> NoEvent]
    /\ handled = [t \in CPUs |-> <<>>]
    /\ logged = [t \in CPUs |-> FALSE]
    /\ nodd = 0
    /\ eff_aff = [l \in Lines |-> {}]
    /\ laff = NoAff
    /\ fiq = [t \in CPUs |-> NoFiq]
    /\ InitCpu /\ InitVm
    /\ ic_nr_hw = 0
    /\ probe = NoProbe
    /\ xl = <<>>
    /\ info_nr_hw \in ProbeCounts
    /\ unmasked \in SUBSET ProbeLines(info_nr_hw)
    /\ sw_set \in SUBSET ProbeLines(info_nr_hw)
    /\ aic_target \in [ProbeLines(info_nr_hw) -> {{0}, {1}}]

\* the values __irq_domain_alloc_irqs returns: the first interrupt number
\* allocated, which is positive, or a negative error code when nothing was
\* allocated; 0 stands for an allocator that reports failure with 0
AllocResults == {-12, 0, 1}

\* the allocation of the IPIs failed: nothing was allocated
AllocFailed(base_ipi) == base_ipi <= 0

\* aic_init_smp: if (WARN_ON(!base_ipi))
BaseIpiRejected(base_ipi) == base_ipi = 0

\* aic_init_smp(irqc, node), called with the hw domain created: ipi_ok the
\* IPI domain was created, base_ipi the result of the allocation
aic_init_smp(ipi_ok, base_ipi) ==
    IF ~ipi_ok
    THEN [ret |-> "ENODEV", ipi_domain |-> "none", ipi_range |-> FALSE]
    ELSE IF BaseIpiRejected(base_ipi)
    THEN [ret |-> "ENODEV", ipi_domain |-> "removed", ipi_range |-> FALSE]
    ELSE [ret |-> "ok", ipi_domain |-> "live", ipi_range |-> TRUE]

\* the first step of the probe that failed
FailedStep(regs_ok, irqc_ok, hw_ok, ipi_ok, base_ipi) ==
    IF ~regs_ok THEN "of_iomap"
    ELSE IF ~irqc_ok THEN "kzalloc"
    ELSE IF ~hw_ok THEN "hw_domain"
    ELSE IF ~ipi_ok THEN "ipi_domain"
    ELSE IF AllocFailed(base_ipi) THEN "ipi_alloc"
    ELSE "none"

\* aic_of_ic_init up to the call of set_handle_irq: what the call has done
\* and whether it goes on (ret "ok") or returns an error
ProbeSetup(regs_ok, irqc_ok, hw_ok, ipi_ok, base_ipi) ==
    LET failed == FailedStep(regs_ok, irqc_ok, hw_ok, ipi_ok, base_ipi)
        smp == aic_init_smp(ipi_ok, base_ipi)
        r0 == [NoProbe EXCEPT !.failed = failed]
    IN  IF ~regs_ok THEN [r0 EXCEPT !.ret = "EIO"]
        ELSE IF ~irqc_ok THEN [r0 EXCEPT !.ret = "ENOMEM", !.regs = "mapped"]
        ELSE IF ~hw_ok
        THEN [r0 EXCEPT !.ret = "ENODEV", !.regs = "unmapped",
                        !.irqc = "freed", !.aic_irqc = "dangling"]
        ELSE IF smp.ret # "ok"
        THEN [r0 EXCEPT !.ret = "ENODEV", !.regs = "unmapped",
                        !.irqc = "freed", !.aic_irqc = "dangling",
                        !.hw_domain = "removed",
                        !.ipi_domain = smp.ipi_domain,
                        !.base_ipi = IF ipi_ok THEN base_ipi ELSE 0]
        ELSE [r0 EXCEPT !.ret = "ok", !.regs = "mapped", !.irqc = "live",
                        !.aic_irqc = "live", !.hw_domain = "live",
                        !.ipi_domain = "live", !.ipi_range = TRUE,
                        !.base_ipi = base_ipi]

\* the outcomes of the steps of a probe: of_iomap, kzalloc,
\* irq_domain_add_linear and irq_domain_create_linear succeeded or not, and
\* the result of __irq_domain_alloc_irqs. A step after a failed one is not
\* reached; its outcome is listed as a success.
ProbeInputs ==
    {in \in BOOLEAN \X BOOLEAN \X BOOLEAN \X BOOLEAN \X AllocResults :
        /\ ~in[1] => in[2]
        /\ ~(in[1] /\ in[2]) => in[3]
        /\ ~(in[1] /\ in[2] /\ in[3]) => in[4]
        /\ ~(in[1] /\ in[2] /\ in[3] /\ in[4]) => in[5] = 1}

\* aic_of_ic_init. On the path that goes on past aic_init_smp the handler is
\* set, ic->nr_hw having been read from AIC_INFO, ~0 is written to every
\* AIC_MASK_SET and AIC_SW_CLR register of the lines and 1 to every
\* AIC_TARGET_CPU register, the cold-start callback is registered and 0 is
\* returned. On the other paths the error is returned.
aic_of_ic_init ==
    /\ probe.ret = "none"
    /\ ic_nr_hw = 0
    /\ \E in \in ProbeInputs :
        LET r == ProbeSetup(in[1], in[2], in[3], in[4], in[5])
        IN  IF r.ret = "ok"
            THEN /\ probe' = [r EXCEPT !.handler = TRUE, !.wrote = TRUE,
                                       !.cpuhp = TRUE]
                 /\ ic_nr_hw' = info_nr_hw
                 /\ unmasked' = unmasked \ ProbeWrittenOf[info_nr_hw]
                 /\ sw_set' = sw_set \ ProbeWrittenOf[info_nr_hw]
                 /\ aic_target' = [l \in DOMAIN aic_target |->
                                      IF l \in 0 .. (info_nr_hw - 1) THEN {0}
                                      ELSE aic_target[l]]
                 /\ lop' = [NoLop EXCEPT !.op = "probe", !.before = unmasked]
            ELSE /\ probe' = r
                 /\ UNCHANGED <<ic_nr_hw, unmasked, sw_set, aic_target, lop>>
    /\ UNCHANGED <<ipivars, evtvars, irqd, lastreq, cur_irq, eff_aff, laff,
                   info_nr_hw, xl, cpuvars, pc>>

NextProbe == aic_of_ic_init

SpecProbe == InitProbe /\ [][NextProbe]_vars

\* ------------------------------------------------------------ the event loop
\* events of a type that is neither hardware nor IPI, and IPI events whose
\* number is not the "other" marker
SpuriousEvents ==
    {Event(0, 1), Event(2, 0), Event(2, 1),
     Event(AIC_EVENT_TYPE_IPI, 0),
     Event(AIC_EVENT_TYPE_IPI, AIC_EVENT_IPI_SELF)}

\* hardware-type events whose number is no line: the first and the last
\* entry of the hw domain after the lines, and the first number outside it
InvalidHwEvents ==
    {Event(AIC_EVENT_TYPE_HW, n) :
        n \in {nr_hw, nr_hw + AIC_NR_FIQ - 1, nr_hw + AIC_NR_FIQ}}

\* aic_handle_irq: readl(AIC_EVENT) returns an event of SpuriousEvents: it is
\* reported with pr_err and the loop reads again
irq_read_spurious(t, event) ==
    /\ pc[t] \in {"idle", "irq_read"}
    /\ nodd < MaxOdd
    /\ Route(event) = "spurious"
    /\ nodd' = nodd + 1
    /\ ev' = [ev EXCEPT ![t] = event]
    /\ handled' = [handled EXCEPT ![t] = <<>>]
    /\ logged' = [logged EXCEPT ![t] = TRUE]
    /\ pc' = [pc EXCEPT ![t] = IF LoopContinues(event) THEN "irq_read"
                                ELSE "idle"]
    /\ UNCHANGED <<ipivars, linevars, restvars>>

\* aic_handle_irq: readl(AIC_EVENT) returns an event of InvalidHwEvents: the
\* number is passed to handle_domain_irq(hw_domain, irq) as it is. mapped: the
\* entry of the domain has been mapped for a driver (the fast sources are
\* entries ic->nr_hw .. ic->nr_hw + AIC_NR_FIQ - 1 of the same domain).
irq_read_hw_invalid(t, event, mapped) ==
    /\ pc[t] \in {"idle", "irq_read"}
    /\ nodd < MaxOdd
    /\ Route(event) = "hw"
    /\ nodd' = nodd + 1
    /\ ev' = [ev EXCEPT ![t] = event]
    /\ handled' = [handled EXCEPT ![t] =
                       IF mapped THEN DomainHandlers(AIC_EVENT_NUM(event))
                       ELSE <<>>]
    /\ logged' = [logged EXCEPT ![t] = FALSE]
    /\ pc' = [pc EXCEPT ![t] = IF LoopContinues(event) THEN "irq_read"
                                ELSE "idle"]
    /\ UNCHANGED <<ipivars, linevars, restvars>>

\* The state once every CPU has enabled every vIPI and the upper layers have
\* enabled and unmasked every line exercised.
InitEvt ==
    /\ InitIdle /\ InitMem /\ InitRest
    /\ aic_vipi_mask = [t \in CPUs |-> Channels]
    /\ ipi_hwmask = [t \in CPUs |-> FALSE]
    /\ maxsend = MaxSends
    /\ unmasked = Lines
    /\ irqd = [l \in Lines |-> [masked |-> FALSE, disabled |-> FALSE]]
    /\ lastreq = [l \in Lines |-> "unmask"]
    /\ lop = NoLop
    /\ cur_irq = [t \in CPUs |-> -1]

NextEvt ==
    \/ \E s \in CPUs, c \in Channels, S \in SmallTargets : aic_ipi_send_mask(s, c, S)
    \/ \E s \in CPUs : send_read(s)
    \/ \E s \in CPUs : send_or(s)
    \/ \E s \in CPUs : send_write(s)
    \/ \E s \in CPUs : send_return(s)
    \/ \E t \in CPUs : irq_read_ipi(t)
    \/ \E t \in CPUs : aic_handle_ipi_ack(t)
    \/ \E t \in CPUs : aic_handle_ipi_xchg(t)
    \/ \E t \in CPUs : aic_handle_ipi_dispatch(t)
    \/ \E t \in CPUs : aic_handle_ipi_unmask(t)
    \/ \E t \in CPUs, l \in Lines : irq_read_hw(t, l)
    \/ \E t \in CPUs : fasteoi_enter(t)
    \/ \E t \in CPUs : fasteoi_eoi(t)
    \/ \E t \in CPUs, event \in SpuriousEvents : irq_read_spurious(t, event)
    \/ \E t \in CPUs, event \in InvalidHwEvents, mapped \in BOOLEAN :
           irq_read_hw_invalid(t, event, mapped)
    \/ \E t \in CPUs : irq_read_none(t)

SpecEvt == InitEvt /\ [][NextEvt]_vars

\* --------------------------------------------------------- fast interrupts
\* a timer control register is the set of its set bits among ENABLE, IT_MASK
\* and IT_STAT
CtlValues == SUBSET {"ENABLE", "IT_MASK", "IT_STAT"}

\* mutant: the mask bit is not looked at
TIMER_FIRING_nomask(x) == {"ENABLE", "IT_STAT"} \subseteq x

\* #define TIMER_FIRING(x)
\*   (((x) & (ENABLE | IT_MASK | IT_STAT)) == (ENABLE | IT_STAT))
TIMER_FIRING(x) ==
    x \cap {"ENABLE", "IT_MASK", "IT_STAT"} = {"ENABLE", "IT_STAT"}

\* the timers in the order they are polled: cntp_ctl_el0, cntv_ctl_el0,
\* SYS_CNTP_CTL_EL02, SYS_CNTV_CTL_EL02. Each is named by the index constant
\* that is added to ic->nr_hw for its line.
NTimers == 4
TimerIndex == <<"AIC_TMR_HV_PHYS", "AIC_TMR_HV_VIRT", "AIC_TMR_GUEST_PHYS",
                "AIC_TMR_GUEST_VIRT">>

\* mutant: every timer is dispatched as the first one
FiqTimerLine_first(k) == [base |-> ic_nr_hw, tmr |-> TimerIndex[1]]

\* aic_irqc->nr_hw + AIC_TMR_..., the hw-domain line of the k-th timer polled
FiqTimerLine(k) == [base |-> ic_nr_hw, tmr |-> TimerIndex[k]]

\* if (TIMER_FIRING(read ...)) handle_domain_irq(hw_domain, line): the calls
\* made for the k-th timer
FiqTimerCalls(ctl, k) ==
    IF TIMER_FIRING(ctl[k]) THEN <<FiqTimerLine(k)>> ELSE <<>>

\* the state of a performance counter: its interrupt mode and its
\* interrupt-active bit (PMCR0_IMODE and PMCR0_IACT; UPMCR0_IMODE and
\* UPMSR_IACT)
PmcValues == [imode : {"OFF", "FIQ"}, iact : BOOLEAN]

\* the tests of PMCR0 and of UPMCR0 / UPMSR: mode FIQ and active
PmcFiring(v) == v.imode = "FIQ" /\ v.iact

\* the hardware on a write of val to the pending bit of IPI_SR: a 1
\* acknowledges the fast IPI and clears the bit, a 0 leaves the bit alone
IpiSrWrite(sr, val) == sr /\ ~val

\* mutant: the interrupt mode of the core counter is left as it was
PmcMaskOff_keep(v) == v

\* sysreg_clear_set_s(SYS_APL_PMCR0, PMCR0_IMODE | PMCR0_IACT,
\*                    FIELD_PREP(PMCR0_IMODE, PMCR0_IMODE_OFF))
PmcMaskOff(v) == [imode |-> "OFF", iact |-> FALSE]

\* sysreg_clear_set_s(SYS_APL_UPMCR0, UPMCR0_IMODE,
\*                    FIELD_PREP(UPMCR0_IMODE, UPMCR0_IMODE_OFF)): the active
\* bit is in UPMSR and is not written
UpmcMaskOff(v) == [v EXCEPT !.imode = "OFF"]

\* the values a read of the registers of CPU t can return
SrOf(t) == IF sysreg[t].known THEN {sysreg[t].sr} ELSE BOOLEAN
CtlOf(t) ==
    IF sysreg[t].known THEN {sysreg[t].ctl} ELSE [1 .. NTimers -> CtlValues]
PmcOf(t) == IF sysreg[t].known THEN {sysreg[t].pmc} ELSE PmcValues
UpmcOf(t) == IF sysreg[t].known THEN {sysreg[t].upmc} ELSE PmcValues

\* one CPU is followed at a time through the code that touches only its own
\* registers
OthersRest(t) == \A u \in CPUs \ {t} : pc[u] \in {"idle", "offline"}

\* if (isr & PSR_F_BIT)
CallsFiq(r) == r.f

\* mutant: else if
CallsIrq_else(r) == r.i /\ ~r.f

\* if (isr & PSR_I_BIT)
CallsIrq(r) == r.i

\* aic_handle_irq_or_fiq on CPU t: u64 isr = read_sysreg(isr_el1)
aic_handle_irq_or_fiq(t) ==
    /\ pc[t] = "idle"
    /\ OthersRest(t)
    /\ \E f \in BOOLEAN, i \in BOOLEAN :
        isr' = [isr EXCEPT ![t] = [on |-> TRUE, f |-> f, i |-> i]]
    /\ ran' = [ran EXCEPT ![t] = <<>>]
    /\ pc' = [pc EXCEPT ![t] = "entry"]
    /\ UNCHANGED <<ipivars, linevars, evtvars, affvars, probevars, fiq,
                   coldvars, chipvars>>

\* if (isr & PSR_F_BIT) aic_handle_fiq(regs): the test and the call
entry_fiq(t) ==
    /\ pc[t] = "entry"
    /\ pc' = [pc EXCEPT ![t] = IF CallsFiq(isr[t]) THEN "fiq" ELSE "entry_irq"]
    /\ ran' = [ran EXCEPT ![t] = IF CallsFiq(isr[t]) THEN Append(@, "fiq")
                                  ELSE @]
    /\ UNCHANGED <<ipivars, linevars, evtvars, affvars, probevars, fiq, isr,
                   coldvars, chipvars>>

\* aic_handle_fiq on CPU t: every source is polled, in order. The values read
\* are those of the CPU's own system registers: sr the pending bit of
\* IPI_SR, ctl the four timer controls, pmc and upmc the counters. The poll
\* touches no state shared with another CPU.
aic_handle_fiq(t) ==
    /\ pc[t] = "fiq"
    /\ OthersRest(t)
    /\ \E sr \in SrOf(t), ctl \in CtlOf(t), pmc \in PmcOf(t),
          upmc \in UpmcOf(t) :
        LET after == [sr |-> IF sr THEN IpiSrWrite(sr, TRUE) ELSE sr,
                      pmc |-> IF PmcFiring(pmc) THEN PmcMaskOff(pmc) ELSE pmc,
                      upmc |-> IF PmcFiring(upmc) THEN UpmcMaskOff(upmc)
                               ELSE upmc]
        IN  /\ fiq' = [fiq EXCEPT ![t] =
                  [on |-> TRUE, sr |-> sr, ack |-> sr, ctl |-> ctl,
                   calls |-> FiqTimerCalls(ctl, 1) \o FiqTimerCalls(ctl, 2)
                             \o FiqTimerCalls(ctl, 3) \o FiqTimerCalls(ctl, 4),
                   pmc |-> pmc, pmc_off |-> PmcFiring(pmc),
                   upmc |-> upmc, upmc_off |-> PmcFiring(upmc),
                   after |-> after]]
            /\ sysreg' = [sysreg EXCEPT ![t] =
                  IF @.known
                  THEN [@ EXCEPT !.sr = after.sr, !.pmc = after.pmc,
                                 !.upmc = after.upmc]
                  ELSE @]
    /\ pc' = [pc EXCEPT ![t] = "fiq_done"]
    /\ UNCHANGED <<ipivars, linevars, evtvars, affvars, probevars, entryvars,
                   cold, ncold, chipvars>>

\* aic_handle_fiq returns to aic_handle_irq_or_fiq
fiq_return(t) ==
    /\ pc[t] = "fiq_done"
    /\ fiq' = [fiq EXCEPT ![t] = NoFiq]
    /\ pc' = [pc EXCEPT ![t] = "entry_irq"]
    /\ UNCHANGED <<ipivars, linevars, evtvars, affvars, probevars, entryvars,
                   coldvars, chipvars>>

\* if (isr & PSR_I_BIT) aic_handle_irq(regs): the test and the call, or the
\* return of aic_handle_irq_or_fiq
entry_irq(t) ==
    /\ pc[t] = "entry_irq"
    /\ IF CallsIrq(isr[t])
       THEN /\ pc' = [pc EXCEPT ![t] = "irq_read"]
            /\ ran' = [ran EXCEPT ![t] = Append(@, "irq")]
            /\ isr' = isr
       ELSE /\ pc' = [pc EXCEPT ![t] = "idle"]
            /\ ran' = [ran EXCEPT ![t] = <<>>]
            /\ isr' = [isr EXCEPT ![t] = NoIsr]
    /\ UNCHANGED <<ipivars, linevars, evtvars, affvars, probevars, fiq,
                   coldvars, chipvars>>

NextFiq ==
    \/ \E t \in CPUs : aic_handle_irq_or_fiq(t)
    \/ \E t \in CPUs : entry_fiq(t)
    \/ \E t \in CPUs : aic_handle_fiq(t)
    \/ \E t \in CPUs : fiq_return(t)
    \/ \E t \in CPUs : entry_irq(t)
    \/ \E t \in CPUs : irq_read_none(t)

SpecFiq == InitReady /\ [][NextFiq]_vars

\* ------------------------------------------------------- domain translation
\* IRQ_TYPE_SENSE_MASK as the set of its bits: the four trigger-type bits
IRQ_TYPE_SENSE_MASK == 0 .. 3

\* the interrupt classes, the numbers and the flags cells a specifier is
\* built from: the numbers at both ends of the two ranges, flags with bits
\* inside and outside the sense mask
XlateSizes == {2, 3}
XlateClasses == {AIC_IRQ, AIC_FIQ, AIC_IPI}
XlateNumbers == {0, AIC_NR_FIQ - 1, AIC_NR_FIQ, nr_hw - 1, nr_hw,
                 nr_hw + AIC_NR_FIQ - 1}
XlateFlags == {{2, 4}, {0, 1, 2, 3, 8}}

\* the caller's *out_hwirq and *out_type before the call
XlateOut == [hwirq |-> -1, type |-> {-1}]

\* mutant: the number of a fast source is used as it is
XlateFiqHwirq_nobase(num) == num

\* *out_hwirq = ic->nr_hw + intspec[1]
XlateFiqHwirq(num) == ic_nr_hw + num

\* aic_irq_domain_xlate(d, ctrlr, intspec, intsize, out_hwirq, out_type): the
\* value returned and the two outputs
XlateResult(intsize, intspec) ==
    IF intsize # 3
    THEN [ret |-> "EINVAL", hwirq |-> XlateOut.hwirq, type |-> XlateOut.type]
    ELSE IF intspec[1] = AIC_IRQ /\ intspec[2] < ic_nr_hw
    THEN [ret |-> "ok", hwirq |-> intspec[2],
          type |-> intspec[3] \cap IRQ_TYPE_SENSE_MASK]
    ELSE IF intspec[1] = AIC_FIQ /\ intspec[2] < AIC_NR_FIQ
    THEN [ret |-> "ok", hwirq |-> XlateFiqHwirq(intspec[2]),
          type |-> intspec[3] \cap IRQ_TYPE_SENSE_MASK]
    ELSE [ret |-> "EINVAL", hwirq |-> XlateOut.hwirq, type |-> XlateOut.type]

\* a call of aic_irq_domain_xlate with a specifier of intsize cells
aic_irq_domain_xlate ==
    /\ \E intsize \in XlateSizes,
          intspec \in XlateClasses \X XlateNumbers \X XlateFlags :
        LET r == XlateResult(intsize, intspec)
            call == [intsize |-> intsize, intspec |-> intspec, ret |-> r.ret,
                     hwirq |-> r.hwirq, type |-> r.type]
        IN  xl' = IF xl = <<>> THEN <<call>> ELSE <<xl[Len(xl)], call>>
    /\ UNCHANGED <<ipivars, linevars, evtvars, affvars, info_nr_hw, ic_nr_hw,
                   sw_set, probe, cpuvars, pc>>

NextXlate == aic_irq_domain_xlate

SpecXlate == Init /\ [][NextXlate]_vars

\* ------------------------------------------------------------- CPU bring-up
\* mutant: the timer control is left as it was
TimerMasked_keep(x) == x

\* sysreg_clear_set(..., 0, ARCH_TIMER_CTRL_IT_MASK) on a timer control
TimerMasked(x) == x \cup {"IT_MASK"}

\* WARN_ON(aic_ic_read(aic_irqc, AIC_WHOAMI) != smp_processor_id());
\* return 0;  -- the warning is logged and the callback goes on
WhoamiCheck(match) == [warned |-> ~match, ret |-> 0]

\* aic_init_cpu on CPU t, the cold-start callback of a CPU coming online.
\* The values the registers hold before the call are any (sr, ctl, pmc,
\* upmc); match tells whether AIC_WHOAMI reads as smp_processor_id().
aic_init_cpu(t) ==
    /\ pc[t] = "offline"
    /\ OthersRest(t)
    /\ ncold < MaxCold
    /\ ncold' = ncold + 1
    /\ \E sr \in SrOf(t), ctl \in CtlOf(t), pmc \in PmcOf(t),
          upmc \in UpmcOf(t) :
        sysreg' = [sysreg EXCEPT ![t] =
                     [known |-> TRUE,
                      sr |-> IpiSrWrite(sr, TRUE),
                      ctl |-> [k \in 1 .. NTimers |-> TimerMasked(ctl[k])],
                      pmc |-> PmcMaskOff(pmc),
                      upmc |-> UpmcMaskOff(upmc)]]
    /\ \E match \in BOOLEAN :
        cold' = [cold EXCEPT ![t] =
                   [done |-> TRUE, match |-> match,
                    warned |-> WhoamiCheck(match).warned,
                    ret |-> WhoamiCheck(match).ret]]
    /\ pc' = [pc EXCEPT ![t] = "cold_done"]
    /\ UNCHANGED <<ipivars, linevars, evtvars, affvars, probevars, fiq,
                   entryvars, chipvars>>

\* the callback has returned: with 0 the CPU goes on and comes online, with
\* an error its bring-up is abandoned
cold_return(t) ==
    /\ pc[t] = "cold_done"
    /\ pc' = [pc EXCEPT ![t] = IF cold[t].ret = 0 THEN "idle" ELSE "offline"]
    /\ UNCHANGED <<ipivars, linevars, evtvars, affvars, probevars, fiq,
                   entryvars, coldvars, chipvars>>

\* the state after the probe with every CPU still to come online
InitCold ==
    /\ InitMem /\ InitLines /\ InitRest
    /\ aic_vipi_flag = [t \in CPUs |-> {}]
    /\ ipi_pend = [t \in CPUs |-> FALSE]
    /\ pc = [t \in CPUs |-> "offline"]
    /\ snd = [t \in CPUs |-> NoSend]
    /\ firing = [t \in CPUs |-> {}]
    /\ idx = [t \in CPUs |-> 0]
    /\ dlog = [t \in CPUs |-> <<>>]
    /\ dispatched = [t \in CPUs |-> [c \in Channels |-> 0]]
    /\ tgt = [t \in CPUs |-> {}]
    /\ obs = [t \in CPUs |-> {}]
    /\ nsend = 0
    /\ nmask = 0
    /\ lmask = NoMask
    /\ quiet = [t \in CPUs |-> FALSE]
    /\ ndrain = [t \in CPUs |-> 0]
    /\ aic_vipi_mask = [t \in CPUs |-> {}]
    /\ \E reset \in BOOLEAN : ipi_hwmask = [t \in CPUs |-> reset]
    /\ maxsend = MaxSends

NextCold ==
    \/ \E t \in CPUs : aic_init_cpu(t)
    \/ \E t \in CPUs : cold_return(t)
    \/ \E t \in CPUs : aic_handle_irq_or_fiq(t)
    \/ \E t \in CPUs : entry_fiq(t)
    \/ \E t \in CPUs : aic_handle_fiq(t)
    \/ \E t \in CPUs : fiq_return(t)
    \/ \E t \in CPUs : entry_irq(t)
    \/ \E t \in CPUs : irq_read_none(t)

SpecCold == InitCold /\ [][NextCold]_vars

\* ------------------------------------------------------------- FIQ irqchip

\* the bits of SYS_APL_VM_TMR_MASK
VmBits == {"VM_TMR_MASK_P", "VM_TMR_MASK_V"}

\* sysreg_clear_set_s(reg, clear, set): the value left in the register
sysreg_clear_set(val, clear, set) == (val \ clear) \cup set

\* a case label of the switch on d->hwirq: the bare enumerator. A hwirq is
\* written as a base and an enumerator, as in FiqTimerLine; the enumerators
\* are below AIC_NR_FIQ, so two hwirqs whose bases are 0 and ic->nr_hw are
\* equal only when the bases are
CaseLabel(name) == [base |-> 0, tmr |-> name]

\* the bit of the case of switch (d->hwirq) that is taken
FiqSwitch(d) ==
    IF d = CaseLabel("AIC_TMR_GUEST_PHYS") THEN {"VM_TMR_MASK_P"}
    ELSE IF d = CaseLabel("AIC_TMR_GUEST_VIRT") THEN {"VM_TMR_MASK_V"}
    ELSE {}

\* the hwirqs of the lines aic_irq_domain_map gives fiq_chip to
FiqLines == {FiqTimerLine(k) : k \in 1 .. NTimers}

aic_fiq_mask(t, d) ==
    /\ pc[t] = "idle"
    /\ vmtmr' = [vmtmr EXCEPT ![t] = sysreg_clear_set(@, FiqSwitch(d), {})]
    /\ lchip' = [op |-> "mask", cpu |-> t, d |-> d, before |-> vmtmr[t]]
    /\ UNCHANGED <<ipivars, linevars, evtvars, affvars, probevars, fiq,
                   entryvars, coldvars, pc>>

aic_fiq_unmask(t, d) ==
    /\ pc[t] = "idle"
    /\ vmtmr' = [vmtmr EXCEPT ![t] = sysreg_clear_set(@, {}, FiqSwitch(d))]
    /\ lchip' = [op |-> "unmask", cpu |-> t, d |-> d, before |-> vmtmr[t]]
    /\ UNCHANGED <<ipivars, linevars, evtvars, affvars, probevars, fiq,
                   entryvars, coldvars, pc>>

\* disabled and masked are irqd_irq_disabled(d) and irqd_irq_masked(d)
aic_fiq_eoi(t, d, disabled, masked) ==
    /\ pc[t] = "idle"
    /\ vmtmr' = [vmtmr EXCEPT ![t] =
                    IF ~disabled /\ ~masked
                    THEN sysreg_clear_set(@, {}, FiqSwitch(d)) ELSE @]
    /\ lchip' = [op |-> "eoi", cpu |-> t, d |-> d, before |-> vmtmr[t]]
    /\ UNCHANGED <<ipivars, linevars, evtvars, affvars, probevars, fiq,
                   entryvars, coldvars, pc>>

\* the state after the probe; the register holds whatever the boot loader
\* or a hypervisor left in it
InitChip ==
    /\ InitIdle /\ InitMem /\ InitLines /\ InitDriver
    /\ vmtmr \in [CPUs -> SUBSET VmBits]
    /\ aic_vipi_mask = [t \in CPUs |-> {}]
    /\ ipi_hwmask = [t \in CPUs |-> FALSE]
    /\ maxsend = MaxSends

NextChip ==
    \/ \E t \in CPUs, d \in FiqLines : aic_fiq_mask(t, d)
    \/ \E t \in CPUs, d \in FiqLines : aic_fiq_unmask(t, d)
    \/ \E t \in CPUs, d \in FiqLines, disabled, masked \in BOOLEAN :
           aic_fiq_eoi(t, d, disabled, masked)

SpecChip == InitChip /\ [][NextChip]_vars

\* ------------------------------------------------------------------ claims

\* the channels sent to t whose bit a sender found in t's mask word
SentTo(t) == tgt[t] \cap obs[t]

\* C1: after one send(c, S) has completed and every CPU of S that had c
\* unmasked has run its drain, each of those CPUs has dispatched c exactly
\* once; and at no time has a CPU outside S, or one that had c masked, had
\* bit c in its flag word or dispatched c.
C1_SendDeliversOnce ==
    /\ \A t \in CPUs, c \in Channels :
         (c \in aic_vipi_flag[t] \/ c \in firing[t] \/ dispatched[t][c] > 0)
            => c \in SentTo(t)
    /\ ( /\ nsend = 1
         /\ \A s \in CPUs : pc[s] = "idle"
         /\ \A t \in CPUs : SentTo(t) # {} => ~ipi_pend[t] )
       => \A t \in CPUs, c \in Channels :
            dispatched[t][c] = IF c \in SentTo(t) THEN 1 ELSE 0

\* C1 witness: the send has completed, a targeted unmasked CPU has drained and
\* dispatched once, and another targeted CPU had the channel masked
C1_Witness ==
    /\ nsend = 1
    /\ \A s \in CPUs : pc[s] = "idle"
    /\ \A t \in CPUs : SentTo(t) # {} => ~ipi_pend[t]
    /\ \E t1 \in CPUs, t2 \in CPUs, c \in Channels :
         /\ c \in SentTo(t1) /\ dispatched[t1][c] = 1
         /\ c \in tgt[t2] /\ c \notin obs[t2] /\ dispatched[t2][c] = 0

\* C2: when every send to t completed before t's first drain began and none
\* started since, that single drain obtains exactly the channels sent to t
\* (unmasked there), dispatches each of them once, and leaves the flag word zero.
C2_DrainComplete ==
    \A t \in CPUs :
      (pc[t] \in {"ipi_disp", "ipi_unmask"} /\ ndrain[t] = 1 /\ quiet[t])
        => /\ aic_vipi_flag[t] = {}
           /\ firing[t] = SentTo(t)
           /\ \A c \in Channels :
                dispatched[t][c] = IF c \in firing[t] /\ c < idx[t] THEN 1 ELSE 0

\* C2 witness: two CPUs other than the target each sent one channel to the
\* target, the two calls overlapping, and the target's first drain served both
C2_Witness ==
    \E t \in CPUs :
      /\ pc[t] = "ipi_unmask" /\ ndrain[t] = 1 /\ quiet[t]
      /\ firing[t] = {0, 1}
      /\ dispatched[t][0] = 1 /\ dispatched[t][1] = 1
      /\ \E s1 \in CPUs \ {t}, s2 \in CPUs \ {t} :
           /\ s1 # s2 /\ pc[s1] = "send_ret" /\ pc[s2] = "send_ret"
           /\ snd[s1].ch = 0 /\ snd[s1].S = {t}
           /\ snd[s2].ch = 1 /\ snd[s2].S = {t}

\* C5: a send that finds the channel masked on every CPU of its target set
\* writes nothing to the send register and changes no flag word.
C5_MaskedSendDrops ==
    \A s \in CPUs :
      (pc[s] = "send_ret" /\ snd[s].seen = {})
        => snd[s].nwr = 0 /\ snd[s].wrote = {} /\ snd[s].ored = {}

\* C5 witness: CPU 0 sent a channel to {1} while CPU 1 had it masked
C5_Witness ==
    /\ pc[0] = "send_ret" /\ snd[0].S = {1} /\ snd[0].seen = {}
    /\ snd[0].nwr = 0 /\ aic_vipi_flag[1] = {} /\ ~ipi_pend[1]
    /\ aic_vipi_mask[1] # {}

\* C6 (as claimed): whenever the drain on t is about to dispatch channel c,
\* bit c of t's mask word is set
C6_DispatchOnlyUnmasked ==
    \A t \in CPUs :
      (pc[t] = "ipi_disp" /\ Remaining(t) # {})
        => Min(Remaining(t)) \in aic_vipi_mask[t]

\* C3: whenever the drain on t is about to run the handler of a channel it
\* exchanged out of its flag word, every ordinary store a sender of that bit
\* issued before its send call is what the handler's loads return.
C3_StoresVisible ==
    \A t \in CPUs :
      (pc[t] = "ipi_disp" /\ Remaining(t) # {})
        => \A sk \in took[t][Min(Remaining(t))] : sk[2] \in Loaded(t, sk[1])

\* C3 witness: a handler is about to run for a bit whose sender had issued two
\* stores before the send, and another CPU still has a store in its buffer
C3_Witness ==
    \E t \in CPUs : \E s \in CPUs \ {t} :
      /\ pc[t] = "ipi_disp" /\ Remaining(t) # {}
      /\ {<<s, 1>>, <<s, 2>>} \subseteq took[t][Min(Remaining(t))]

\* C4: a bit c set in t's flag word, whenever it is set relative to t's
\* drains, leads to one more dispatch of channel c on t.
C4_NoMissedRetrigger ==
    \A t \in CPUs, c \in Channels, n \in 0 .. MaxSendsReady :
      (c \in aic_vipi_flag[t] /\ dispatched[t][c] = n) ~> (dispatched[t][c] > n)

\* C4 witness: a bit was set on t while its first drain was past the
\* exchange; a second drain, raised by the physical IPI, has dispatched it
C4_Witness ==
    \E t \in CPUs, c \in Channels :
      /\ dispatched[t][c] = 2 /\ ndrain[t] = 2
      /\ pc[t] = "ipi_unmask" /\ aic_vipi_flag[t] = {}

\* C7: the eoi of a delivered line writes the line's bit to AIC_MASK_CLR if
\* and only if the line is then neither disabled nor masked; with the write
\* the line, and only it, becomes unmasked, without it the mask state of
\* every line is as it was.
C7_EoiUnmaskIff ==
    lop.op = "eoi"
      => /\ lop.wr <=> (~lop.dis /\ ~lop.msk)
         /\ unmasked = IF ~lop.dis /\ ~lop.msk THEN lop.before \cup {lop.line}
                                               ELSE lop.before

\* C7 witness: a line masked by the upper layers while its handler ran has
\* been acknowledged without a write and is still masked
C7_Witness ==
    /\ lop.op = "eoi" /\ lop.msk /\ ~lop.dis /\ ~lop.wr
    /\ lop.line \notin unmasked

\* C8 (as claimed): outside the window from delivery to eoi, a line is
\* hardware-masked if and only if the last explicit request on it was mask
C8_MaskReflectsLastRequest ==
    \A l \in Lines :
      ~InFlight(l) => ((l \notin unmasked) <=> (lastreq[l] = "mask"))

\* C9: a mask or unmask of a line leaves the mask bit of every other line,
\* in the same register and in the others, as it was.
C9_MaskFrame ==
    lop.op \in {"mask", "unmask"}
      => unmasked \ {lop.line} = lop.before \ {lop.line}

\* C9 witness: line 0 has been masked while line 1, of the same register,
\* and line 32, of the next one, were unmasked and still are
C9_Witness ==
    /\ lop.op = "mask" /\ lop.line = 0 /\ 0 \in lop.before /\ 0 \notin unmasked
    /\ {1, 32} \subseteq unmasked

\* C10: mask leaves the line masked and unmask leaves it unmasked; mask of a
\* masked line and unmask of an unmasked line leave the mask state of all
\* lines as it was.
C10_MaskIdempotent ==
    /\ lop.op = "mask" => lop.line \notin unmasked
    /\ lop.op = "unmask" => lop.line \in unmasked
    /\ ( \/ lop.op = "mask" /\ lop.line \notin lop.before
         \/ lop.op = "unmask" /\ lop.line \in lop.before )
       => unmasked = lop.before

\* C10 witness: an unmasked line has been unmasked again while another line
\* was masked and a third unmasked
C10_Witness ==
    /\ lop.op = "unmask" /\ lop.line \in lop.before
    /\ \E l1 \in Lines \ {lop.line}, l2 \in Lines \ {lop.line} :
         l1 \in unmasked /\ l2 \notin unmasked


\* C12: a set_affinity call whose line index exceeds the hardware line
\* count returns -EINVAL, writes no target register and updates no
\* effective affinity.
C12_AffinityRangeRejected ==
    (laff.ret # "none" /\ laff.hwirq > ic_nr_hw) =>
        /\ laff.ret = "EINVAL"
        /\ laff.wr = {}
        /\ ~laff.upd
        /\ aic_target = laff.target
        /\ eff_aff = laff.eff

C12_Witness ==
    /\ laff.hwirq = nr_hw + 1
    /\ laff.ret = "EINVAL"
    /\ laff.mask # {}
    /\ \E l \in Lines : aic_target[l] # {0}

\* C11: a set_affinity call with force false and a requested mask that has
\* no online CPU returns -EINVAL and leaves the target registers and the
\* effective affinities as they were.
C11_AffinityNoOnlineRejected ==
    (laff.ret # "none" /\ ~laff.force /\ laff.mask \cap laff.online = {}) =>
        /\ laff.ret = "EINVAL"
        /\ laff.wr = {}
        /\ aic_target = laff.target
        /\ eff_aff = laff.eff

\* C13: after a successful set_affinity that selects CPU k for a line, the
\* line's target register holds exactly bit k, its effective affinity is
\* {k}, the target register of every other line is as before; with force
\* false k is a requested and online CPU.
C13_AffinityRoundTrip ==
    (/\ laff.ret = "IRQ_SET_MASK_OK"
     /\ laff.hwirq \in Lines
     /\ laff.cpu \in CPUs) =>
        /\ aic_target[laff.hwirq] = {laff.cpu}
        /\ eff_aff[laff.hwirq] = {laff.cpu}
        /\ \A l \in Lines \ {laff.hwirq} :
               aic_target[l] = laff.target[l] /\ eff_aff[l] = laff.eff[l]
        /\ ~laff.force => laff.cpu \in laff.mask \cap laff.online

C13_Witness ==
    /\ laff.ret = "IRQ_SET_MASK_OK"
    /\ ~laff.force
    /\ laff.hwirq \in Lines
    /\ laff.cpu = 2
    /\ laff.target[laff.hwirq] = {0}
    /\ aic_target[laff.hwirq] = {2}
    /\ \E l \in Lines \ {laff.hwirq} : aic_target[l] = {1}

\* C14: a set_affinity call for a line with force true and a non-empty
\* requested mask selects the lowest-numbered CPU of the mask, online or
\* not, writes its single bit to the line's target register and succeeds.
C14_AffinityForce ==
    (laff.ret # "none" /\ laff.force /\ laff.mask # {} /\ laff.hwirq \in Lines) =>
        /\ laff.ret = "IRQ_SET_MASK_OK"
        /\ laff.cpu = Min(laff.mask)
        /\ laff.wr = {<<laff.hwirq, {Min(laff.mask)}>>}
        /\ aic_target[laff.hwirq] = {Min(laff.mask)}

C14_Witness ==
    /\ laff.force
    /\ laff.hwirq \in Lines
    /\ laff.mask = {1, 2}
    /\ laff.online = {0, 2}
    /\ laff.ret = "IRQ_SET_MASK_OK"
    /\ aic_target[laff.hwirq] = {1}


\* C15: once the probe has returned 0 on a controller with nr_hw lines,
\* a multiple of 32 or not, every line 0 .. nr_hw-1 is masked, its
\* software-trigger bit is clear and its target register is 1 (CPU 0).
C15_ProbeMasksAll ==
    ic_nr_hw # 0 =>
        /\ ic_nr_hw = info_nr_hw
        /\ \A l \in ProbeLines(ic_nr_hw) :
               /\ l \notin unmasked
               /\ l \notin sw_set
               /\ aic_target[l] = {0}

C15_Witness ==
    /\ ic_nr_hw = 33
    /\ lop.op = "probe"
    /\ lop.before = {0, 32}
    /\ unmasked = {}
    /\ sw_set = {}
    /\ aic_target[32] = {0}


\* the CPU is in aic_handle_irq
InIrq(t) == pc[t] \in {"irq_read", "hw_flow", "hw_run"} \/ InDrain(t)

\* C16: an event read that returns (hardware, n) for a line n of
\* 0 .. nr_hw-1 invokes the hw-domain handler of line n once and no other
\* handler: from the read to the next read the handlers invoked are exactly
\* <<n>>, nothing is logged and the IPI receive path is not entered.
C16_HwEventDispatch ==
    \A t \in CPUs : \A n \in Lines :
        (InIrq(t) /\ ev[t] = Event(AIC_EVENT_TYPE_HW, n)) =>
            /\ handled[t] = <<n>>
            /\ ~logged[t]
            /\ ~InDrain(t)
            /\ pc[t] \in {"hw_flow", "hw_run"} => cur_irq[t] = n

C16_Witness ==
    /\ pc[0] = "irq_read"
    /\ ev[0] = Event(AIC_EVENT_TYPE_HW, 32)
    /\ handled[0] = <<32>>
    /\ 32 \in unmasked

\* C17: the loop routes every event it reads that is not empty (hardware:
\* the handler chain; the IPI marker: the IPI receive path; anything else:
\* the log) and then reads again; a CPU is outside the loop only with its
\* last read having reported no event.
C17_LoopRoutesAll ==
    \A t \in CPUs :
        /\ ~InIrq(t) => ev[t] = NoEvent
        /\ InIrq(t) => ev[t] # NoEvent
        /\ ev[t] # NoEvent =>
            IF ev[t] \div (2 ^ AIC_EVENT_NUM_BITS) = AIC_EVENT_TYPE_HW
            THEN /\ pc[t] \in {"hw_flow", "hw_run", "irq_read"}
                 /\ ~logged[t]
                 /\ pc[t] \in {"hw_flow", "hw_run"} =>
                        cur_irq[t] = ev[t] % (2 ^ AIC_EVENT_NUM_BITS)
            ELSE IF ev[t] = Event(AIC_EVENT_TYPE_IPI, AIC_EVENT_IPI_OTHER)
            THEN /\ InDrain(t) \/ pc[t] = "irq_read"
                 /\ ndrain[t] >= 1
                 /\ ~logged[t] /\ handled[t] = <<>>
            ELSE /\ pc[t] = "irq_read"
                 /\ logged[t] /\ handled[t] = <<>>

C17_Witness ==
    /\ pc[0] = "hw_run"
    /\ InDrain(1)
    /\ pc[2] = "irq_read" /\ logged[2]

\* C18: an event that is not recognized (a type that is neither hardware nor
\* IPI, an IPI event whose number is not the "other" marker, a hardware
\* event whose number is not a line of 0 .. nr_hw-1) invokes no handler and
\* the loop goes on to the next read.
C18_SpuriousNoHandler ==
    \A t \in CPUs :
        LET type == ev[t] \div (2 ^ AIC_EVENT_NUM_BITS)
            num == ev[t] % (2 ^ AIC_EVENT_NUM_BITS)
        IN
        (/\ ev[t] # NoEvent
         /\ \/ type \notin {AIC_EVENT_TYPE_HW, AIC_EVENT_TYPE_IPI}
            \/ type = AIC_EVENT_TYPE_IPI /\ num # AIC_EVENT_IPI_OTHER
            \/ type = AIC_EVENT_TYPE_HW /\ num \notin 0 .. (ic_nr_hw - 1)) =>
            /\ handled[t] = <<>>
            /\ pc[t] = "irq_read"


\* C19: a timer is treated as firing, and its line dispatched by the poll,
\* if and only if its enable bit is set, its mask bit is clear and its
\* status bit is set, for each of the eight combinations of the three bits.
C19_TimerFiringIff ==
    \A t \in CPUs : fiq[t].on =>
        \A k \in 1 .. NTimers :
            (\E i \in 1 .. Len(fiq[t].calls) :
                 fiq[t].calls[i].tmr = TimerIndex[k])
            <=> (/\ "ENABLE" \in fiq[t].ctl[k]
                 /\ "IT_MASK" \notin fiq[t].ctl[k]
                 /\ "IT_STAT" \in fiq[t].ctl[k])

C19_Witness ==
    \E t \in CPUs :
        /\ fiq[t].on
        /\ fiq[t].ctl[1] = {"ENABLE", "IT_MASK", "IT_STAT"}
        /\ fiq[t].ctl[2] = {"ENABLE", "IT_STAT"}
        /\ fiq[t].ctl[3] = {"IT_STAT"}
        /\ fiq[t].ctl[4] = {"ENABLE"}
        /\ Len(fiq[t].calls) = 1

\* C20: a fast-interrupt entry polls every source; the line of each firing
\* timer, nr_hw plus the timer's own index, is dispatched exactly once, the
\* line of a timer that is not firing is not dispatched, whatever the state
\* of the other sources.
C20_FiqPollsAll ==
    \A t \in CPUs : fiq[t].on =>
        /\ DOMAIN fiq[t].ctl = 1 .. NTimers
        /\ fiq[t].pmc \in PmcValues /\ fiq[t].upmc \in PmcValues
        /\ \A k \in 1 .. NTimers :
               Cardinality({i \in 1 .. Len(fiq[t].calls) :
                               fiq[t].calls[i] = [base |-> ic_nr_hw,
                                                  tmr |-> TimerIndex[k]]})
               = IF TIMER_FIRING(fiq[t].ctl[k]) THEN 1 ELSE 0
        /\ Len(fiq[t].calls) =
               Cardinality({k \in 1 .. NTimers : TIMER_FIRING(fiq[t].ctl[k])})

C20_Witness ==
    \E t \in CPUs :
        /\ fiq[t].on
        /\ fiq[t].sr /\ PmcFiring(fiq[t].pmc) /\ PmcFiring(fiq[t].upmc)
        /\ \A k \in 1 .. NTimers : TIMER_FIRING(fiq[t].ctl[k])
        /\ Len(fiq[t].calls) = NTimers

\* the paths one exception entry calls, in order, for the value read from
\* isr_el1
EntryPaths(r) ==
    (IF r.f THEN <<"fiq">> ELSE <<>>) \o (IF r.i THEN <<"irq">> ELSE <<>>)

\* C21: on one exception entry the FIQ path runs if and only if the FIQ
\* status bit is asserted and the IRQ path runs if and only if the IRQ status
\* bit is asserted: with both asserted both run, the FIQ poll first; with
\* neither asserted neither runs. While a path runs, its bit was asserted and
\* the paths called so far are the expected ones; when the entry returns,
\* the paths called are exactly those of the asserted bits, in that order.
C21_EntryPaths ==
    [][\A t \in CPUs : isr[t].on =>
        /\ pc[t] \in {"fiq", "fiq_done"} => isr[t].f /\ ran[t] = <<"fiq">>
        /\ pc[t] = "irq_read" => isr[t].i /\ ran[t] = EntryPaths(isr[t])
        /\ pc'[t] = "idle" => ran[t] = EntryPaths(isr[t])]_vars

\* both bits asserted: the FIQ poll has run and the IRQ drain is running
C21_Witness ==
    \E t \in CPUs : /\ isr[t].f /\ isr[t].i
                    /\ pc[t] = "irq_read"
                    /\ ran[t] = <<"fiq", "irq">>

\* C22: in a FIQ poll a pending fast IPI is acknowledged (the pending bit is
\* written back, which clears it) and no handler is dispatched for it; a core
\* counter found active in FIQ mode has its interrupt mode switched off, and
\* so has an uncore counter. The only handlers the poll dispatches are those
\* of the firing timers. When the poll returns the fast-IPI pending bit is
\* clear and neither counter is both in FIQ mode and active.
C22_FiqAcksAndMasks ==
    \A t \in CPUs : fiq[t].on =>
        /\ fiq[t].ack = fiq[t].sr
        /\ fiq[t].pmc_off = PmcFiring(fiq[t].pmc)
        /\ fiq[t].upmc_off = PmcFiring(fiq[t].upmc)
        /\ PmcFiring(fiq[t].pmc) => fiq[t].after.pmc.imode = "OFF"
        /\ PmcFiring(fiq[t].upmc) => fiq[t].after.upmc.imode = "OFF"
        /\ Len(fiq[t].calls)
             = Cardinality({k \in 1 .. NTimers : TIMER_FIRING(fiq[t].ctl[k])})
        /\ \A n \in 1 .. Len(fiq[t].calls) :
             \E k \in 1 .. NTimers : fiq[t].calls[n] = FiqTimerLine(k)
        /\ ~fiq[t].after.sr
        /\ ~PmcFiring(fiq[t].after.pmc)
        /\ ~PmcFiring(fiq[t].after.upmc)

\* a poll that found the fast IPI pending and both counters active in FIQ
\* mode, and no timer firing
C22_Witness ==
    \E t \in CPUs : /\ fiq[t].on /\ fiq[t].sr
                    /\ PmcFiring(fiq[t].pmc) /\ PmcFiring(fiq[t].upmc)
                    /\ fiq[t].calls = <<>>

\* C23: after the cold-start callback has run on a CPU, each of the four
\* timers has its interrupt-mask bit set, so none is firing, the fast-IPI
\* pending bit is clear and the core and uncore counter interrupt modes are
\* off; a FIQ poll run on the CPU after the callback dispatches no handler and
\* finds nothing to acknowledge or switch off, whatever the registers held
\* before the callback.
C23_ColdStartMasksAll ==
    \A t \in CPUs : cold[t].done =>
        /\ sysreg[t].known
        /\ \A k \in 1 .. NTimers : /\ "IT_MASK" \in sysreg[t].ctl[k]
                                   /\ ~TIMER_FIRING(sysreg[t].ctl[k])
        /\ ~sysreg[t].sr
        /\ sysreg[t].pmc.imode = "OFF"
        /\ sysreg[t].upmc.imode = "OFF"
        /\ fiq[t].on => /\ fiq[t].calls = <<>>
                        /\ ~fiq[t].ack /\ ~fiq[t].pmc_off /\ ~fiq[t].upmc_off

\* a poll after the callback on a CPU whose first timer was enabled with its
\* status set and whose uncore counter was active before the callback
C23_Witness ==
    \E t \in CPUs : /\ cold[t].done /\ fiq[t].on
                    /\ {"ENABLE", "IT_STAT"} \subseteq sysreg[t].ctl[1]
                    /\ sysreg[t].upmc.iact

\* C24: a CPU-identity mismatch at cold start is fatal: when the controller's
\* who-am-I value differs from the logical CPU number the callback does not
\* complete successfully and the CPU never goes on to take interrupts through
\* this controller.
C24_MismatchFatal ==
    \A t \in CPUs : (cold[t].done /\ ~cold[t].match) =>
        /\ cold[t].ret # 0
        /\ pc[t] \in {"cold_done", "offline"}

\* C25: a probe failure leaves nothing activated: when a step of the probe
\* has failed (register block not mapped, allocation failure, hw-domain
\* creation failure, IPI-domain creation failure, IPI allocation failure) the
\* probe has returned an error, no top-level handler and no cold-start
\* callback is registered, no controller register has been written and no
\* domain created earlier is left in place.
C25_ProbeFailureClean ==
    (probe.ret # "none" /\ probe.failed # "none") =>
        /\ probe.ret # "ok"
        /\ ~probe.handler
        /\ ~probe.cpuhp
        /\ ~probe.wrote
        /\ probe.hw_domain # "live"
        /\ probe.ipi_domain # "live"

\* the specifier of call c is one the claim accepts: three cells and a number
\* valid for its class
XlateValid(c) ==
    /\ c.intsize = 3
    /\ \/ c.intspec[1] = AIC_IRQ /\ c.intspec[2] < ic_nr_hw
       \/ c.intspec[1] = AIC_FIQ /\ c.intspec[2] < AIC_NR_FIQ

\* C26: translation accepts exactly the three-cell specifiers whose number is
\* valid for their class: an IRQ number below nr_hw gives that number, a FIQ
\* number below the number of fast sources gives nr_hw plus the number, and
\* the type reported is the sense bits of the flags cell. Every other
\* specifier is rejected with invalid-argument and neither output is written.
\* Accepted hwirqs lie in 0 .. nr_hw + AIC_NR_FIQ - 1 and two accepted
\* specifiers with different (class, number) pairs get different hwirqs.
C26_XlateAccepts ==
    /\ \A k \in 1 .. Len(xl) :
         LET c == xl[k]
         IN  IF XlateValid(c)
             THEN /\ c.ret = "ok"
                  /\ c.hwirq = IF c.intspec[1] = AIC_IRQ THEN c.intspec[2]
                               ELSE ic_nr_hw + c.intspec[2]
                  /\ c.hwirq \in 0 .. (ic_nr_hw + AIC_NR_FIQ - 1)
                  /\ c.type = {b \in c.intspec[3] : b \in 0 .. 3}
             ELSE /\ c.ret = "EINVAL"
                  /\ c.hwirq = XlateOut.hwirq
                  /\ c.type = XlateOut.type
    /\ \A j, k \in 1 .. Len(xl) :
         (/\ xl[j].ret = "ok" /\ xl[k].ret = "ok"
          /\ <<xl[j].intspec[1], xl[j].intspec[2]>>
               # <<xl[k].intspec[1], xl[k].intspec[2]>>)
         => xl[j].hwirq # xl[k].hwirq

\* the last line and the last fast source translated one after the other,
\* the second with flag bits outside the sense mask
C26_Witness ==
    /\ Len(xl) = 2
    /\ xl[1].intspec[1] = AIC_IRQ /\ xl[1].hwirq = nr_hw - 1
    /\ xl[2].intspec[1] = AIC_FIQ /\ xl[2].hwirq = nr_hw + AIC_NR_FIQ - 1
    /\ xl[2].intspec[3] = {0, 1, 2, 3, 8} /\ xl[2].type = {0, 1, 2, 3}

C28_MaskWordFrame ==
    [][IF nmask' # nmask
       THEN LET t == lmask'.cpu
                c == lmask'.ch
            IN  /\ aic_vipi_mask'[t] \ {c} = aic_vipi_mask[t] \ {c}
                /\ (c \in aic_vipi_mask'[t]) <=> (lmask'.op = "unmask")
                /\ \A u \in CPUs \ {t} : aic_vipi_mask'[u] = aic_vipi_mask[u]
                /\ aic_vipi_flag' = aic_vipi_flag
       ELSE aic_vipi_mask' = aic_vipi_mask]_vars

\* channel 0 has been masked on a CPU whose channel 1 stays unmasked, while
\* another CPU is in the middle of a send
C28_Witness ==
    /\ lmask.op = "mask" /\ lmask.ch = 0
    /\ aic_vipi_mask[lmask.cpu] = {1}
    /\ \E s \in CPUs \ {lmask.cpu} : InSend(s)

\* C29: a vIPI mask call on CPU t writes the hardware mask-set register if
\* and only if t's mask word is entirely zero after the bit was cleared; a
\* vIPI unmask call writes the hardware mask-clear register every time.
C29_HwMaskWrites ==
    /\ lmask.op = "mask" =>
         ((lmask.hw = "AIC_IPI_MASK_SET") <=> (aic_vipi_mask[lmask.cpu] = {}))
    /\ lmask.op = "mask" => lmask.hw \in {"AIC_IPI_MASK_SET", "none"}
    /\ lmask.op = "unmask" => lmask.hw = "AIC_IPI_MASK_CLR"

\* a mask call that left another channel unmasked and wrote nothing
C29_Witness ==
    /\ lmask.op = "mask" /\ lmask.hw = "none"
    /\ aic_vipi_mask[lmask.cpu] # {}

\* C30: within one send call every atomic OR into a flag word happens before
\* the write of the send register, and the send register is written at most
\* once. The value written has bit k set exactly for the CPUs k of the target
\* set whose mask word had the channel bit when the call examined it, and
\* these are exactly the CPUs whose flag word the call ORed. Once the
\* register is written the call has left its loop, so no OR follows; a call
\* that returns without writing found no target unmasked and ORed nothing.
C30_SendOrder ==
    \A s \in CPUs :
        /\ snd[s].nwr <= 1
        /\ snd[s].seen \subseteq snd[s].S
        /\ snd[s].ored \subseteq snd[s].seen
        /\ snd[s].nwr = 1 =>
             /\ pc[s] = "send_ret"
             /\ snd[s].todo = {}
             /\ snd[s].wrote = snd[s].seen
             /\ snd[s].wrote = snd[s].ored
        /\ (pc[s] = "send_ret" /\ snd[s].nwr = 0) =>
             /\ snd[s].seen = {}
             /\ snd[s].ored = {}

\* a send to three CPUs of which one had the channel masked when examined
\* has written the send register with the bits of the other two
C30_Witness ==
    \E s \in CPUs :
        /\ snd[s].nwr = 1
        /\ Cardinality(snd[s].S) = 3
        /\ Cardinality(snd[s].wrote) = 2

\* the channels dispatched so far by the drain in progress on CPU t
DrainDispatched(t) ==
    {dlog[t][k][2] : k \in {j \in 1 .. Len(dlog[t]) : dlog[t][j][1] = "disp"}}

\* C31: in every drain the physical IPI is acknowledged before the flag word
\* is exchanged with zero; the exchange happens exactly once and before any
\* channel handler runs; only channels whose bit was in the exchanged value
\* are dispatched, each once, and all of them before the end; the physical
\* IPI mask is cleared exactly once, by the last access of the drain, after
\* the last dispatch, also when the exchanged value is zero.
C31_DrainOrder ==
    [][\A t \in CPUs :
        /\ pc[t] = "ipi_ack" => dlog[t] = <<>>
        /\ pc[t] = "ipi_xchg" => dlog[t] = <<<<"ack", 0>>>>
        /\ pc[t] \in {"ipi_disp", "ipi_unmask"} =>
             /\ Len(dlog[t]) >= 2
             /\ dlog[t][1] = <<"ack", 0>>
             /\ dlog[t][2] = <<"xchg", 0>>
             /\ \A k \in 3 .. Len(dlog[t]) : dlog[t][k][1] = "disp"
             /\ \A j, k \in 3 .. Len(dlog[t]) : j # k => dlog[t][j] # dlog[t][k]
             /\ DrainDispatched(t) \subseteq firing[t]
        /\ pc[t] = "ipi_unmask" => DrainDispatched(t) = firing[t]
        /\ (InDrain(t) /\ ~InDrain(t)') =>
             /\ pc[t] = "ipi_unmask"
             /\ ipi_hwmask[t] /\ ~ipi_hwmask'[t]
        /\ (InDrain(t) /\ InDrain(t)') => ipi_hwmask'[t] = ipi_hwmask[t]
        /\ (InDrain(t) /\ pc[t] # "ipi_xchg") =>
             (aic_vipi_flag'[t] = aic_vipi_flag[t]
              \/ aic_vipi_flag[t] \subseteq aic_vipi_flag'[t])]_vars

\* a drain that exchanged both channels is about to clear the mask after
\* dispatching channel 0 and then channel 1
C31_Witness ==
    \E t \in CPUs :
        /\ pc[t] = "ipi_unmask"
        /\ dlog[t] = <<<<"ack", 0>>, <<"xchg", 0>>, <<"disp", 0>>, <<"disp", 1>>>>

\* the bit of SYS_APL_VM_TMR_MASK that belongs to the fast source of a line
GuestBit(d) ==
    IF d.tmr = "AIC_TMR_GUEST_PHYS" THEN {"VM_TMR_MASK_P"}
    ELSE IF d.tmr = "AIC_TMR_GUEST_VIRT" THEN {"VM_TMR_MASK_V"}
    ELSE {}

\* C32: mask and unmask of the guest physical timer change only the P bit of
\* the virtualization-timer-mask register and of the guest virtual timer
\* only the V bit; after mask the bit is in its masked state (clear) and
\* after unmask in its unmasked state (set), whatever it was before; mask
\* and unmask of any other fast source change nothing.
C32_FiqMaskBits ==
    lchip.op \in {"mask", "unmask"} =>
        LET after == vmtmr[lchip.cpu]
            bit == GuestBit(lchip.d)
        IN  /\ after \ bit = lchip.before \ bit
            /\ lchip.op = "mask" => after \cap bit = {}
            /\ lchip.op = "unmask" => bit \subseteq after

\* the guest physical timer was masked while its bit was set
C32_Witness ==
    /\ lchip.op = "mask"
    /\ lchip.d = FiqTimerLine(3)
    /\ "VM_TMR_MASK_P" \in lchip.before

\* the senders that have set a bit in t's flag word and have not yet come
\* to the write of AIC_IPI_SEND
SendersOwing(t) ==
    {s \in CPUs : pc[s] \in {"send_loop", "send_or"} /\ t \in snd[s].ored}

\* C33: no lost wakeup. Whenever the flag word of a CPU is not zero, its
\* physical IPI is pending, or it has read the IPI event and its drain has
\* not yet exchanged the word, or a sender that set a bit in the word has
\* not yet written the send register.
C33_NoLostWakeup ==
    \A t \in CPUs :
        aic_vipi_flag[t] # {} =>
            \/ ipi_pend[t]
            \/ pc[t] \in {"ipi_ack", "ipi_xchg"}
            \/ SendersOwing(t) # {}

\* a sender set a bit after the target's drain had acknowledged the IPI and
\* exchanged the word, and its write has made the IPI pending again
C33_Witness ==
    \E t \in CPUs :
        /\ pc[t] = "ipi_disp"
        /\ aic_vipi_flag[t] # {}
        /\ ipi_pend[t]
        /\ SendersOwing(t) = {}

\* C34: on a CPU that is not inside a drain (mask and unmask calls are
\* single steps), a non-zero mask word implies that the physical IPI is
\* unmasked in hardware, also after mask and unmask calls made by channel
\* handlers during a drain.
C34_UnmaskedWhenEnabled ==
    \A t \in CPUs :
        (~InDrain(t) /\ aic_vipi_mask[t] # {}) => ~ipi_hwmask[t]

\* the last call was an unmask made by a handler, and the drain that called
\* the handler has returned
C34_Witness ==
    \E t \in CPUs :
        /\ ~InDrain(t)
        /\ lmask.nested /\ lmask.cpu = t /\ lmask.op = "unmask"
        /\ aic_vipi_mask[t] = Channels
        /\ ~ipi_hwmask[t]

\* C35: every handler of the hw domain that the event loop invokes is that of
\* a hardware line, 0 .. nr_hw - 1; the entries of the fast sources
\* (nr_hw .. nr_hw + 3) are never invoked from the event loop, whatever the
\* event register returns.
C35_IrqPathTrueLines ==
    \A t \in CPUs :
        \A k \in 1 .. Len(handled[t]) : handled[t][k] \in 0 .. (ic_nr_hw - 1)

\* C36: every write a set_affinity call makes to the AIC_TARGET_CPU bank is
\* to the slot of a hardware line, 0 .. nr_hw - 1, and its value is the
\* single bit of a CPU; a call for a line index from nr_hw on, or one in
\* which no CPU is selected, writes no target register.
C36_AffinityWrites ==
    laff.ret # "none" =>
        /\ \A w \in laff.wr :
               /\ w[1] \in 0 .. (ic_nr_hw - 1)
               /\ \E k \in CPUs : w[2] = {k}
        /\ (laff.hwirq >= ic_nr_hw \/ laff.cpu \notin CPUs) => laff.wr = {}

\* C37: after a probe that returned an error the global pointer aic_irqc
\* does not refer to an instance that has been freed or whose register block
\* has been unmapped.
C37_NoDanglingPointer ==
    (probe.ret \notin {"none", "ok"}) =>
        ~(/\ probe.aic_irqc # "null"
          /\ (probe.irqc = "freed" \/ probe.regs = "unmapped"))

=============================================================================
